---------------------------- MODULE Spec2Model ----------------------------
(***************************************************************************)
(* lk2nd A/B boot: the U-Boot environment store (lk2nd/boot/ubootenv.c),   *)
(* the slot selector and pre-boot step (lk2nd/boot/ab.c) and the boot      *)
(* dispatcher (lk2nd/boot/boot.c).                                         *)
(*                                                                         *)
(* Bytes are integers 0..255 and C strings are sequences of non-NUL bytes  *)
(* (ASCII codes).  Buffers are sequences of bytes; C offsets are 0-based,  *)
(* so byte p of buffer d is d[p + 1].                                      *)
(***************************************************************************)
EXTENDS Integers, Sequences, FiniteSets, TLC

(***************************************************************************)
(* Bounds of the model.                                                    *)
(***************************************************************************)
\* env->size of the modelled env region (the build default is 0x20000):
\* 5 header bytes and a payload that holds the three boot variables.
EnvSize == 53
\* number of API calls one behaviour of SpecEnv makes after construction
MaxOps == 3
\* number of boot attempts (pre-boot steps) one behaviour of Spec makes
MaxAttempts == 4

(***************************************************************************)
(* Program constants.                                                      *)
(***************************************************************************)
UBOOT_ENV_FLAG_ACTIVE == 1
UBOOT_ENV_MAX_BOOT_ATTEMPTS == 3
\* sizeof(env->boot_order)
BOOT_ORDER_BUF == 32
\* header: CRC32 (4 bytes) + flags (1 byte)
HeaderSize == 5
NUL == 0
ChSpace == 32
ChMinus == 45
Ch0 == 48
ChEq == 61
ChA == 65
ChB == 66
ChC == 67

\* "BOOT_ORDER", "BOOT_A_LEFT", "BOOT_B_LEFT", "A B"
KeyBootOrder == <<66, 79, 79, 84, 95, 79, 82, 68, 69, 82>>
KeyBootALeft == <<66, 79, 79, 84, 95, 65, 95, 76, 69, 70, 84>>
KeyBootBLeft == <<66, 79, 79, 84, 95, 66, 95, 76, 69, 70, 84>>
DefaultBootOrder == <<ChA, ChSpace, ChB>>

Min(a, b) == IF a < b THEN a ELSE b

(***************************************************************************)
(* CRC32 (zlib polynomial), on 32-bit values kept as four bytes,           *)
(* least significant first, which is also the layout of the env header.    *)
(***************************************************************************)
RECURSIVE XorBits(_, _, _)
XorBits(a, b, n) ==
    IF n = 0 THEN 0
    ELSE (((a % 2) + (b % 2)) % 2) + 2 * XorBits(a \div 2, b \div 2, n - 1)

XorNib == [a \in 0..15 |-> [b \in 0..15 |-> XorBits(a, b, 4)]]

Xor8(a, b) == (16 * XorNib[a \div 16][b \div 16]) + XorNib[a % 16][b % 16]

Xor32(x, y) == [i \in 1..4 |-> Xor8(x[i], y[i])]

\* x >> 1
Shr1(x) ==
    [i \in 1..4 |-> (x[i] \div 2) + (IF i < 4 THEN (x[i + 1] % 2) * 128 ELSE 0)]

\* 0xEDB88320
CrcPoly == <<32, 131, 184, 237>>

RECURSIVE CrcBits(_, _)
CrcBits(c, n) ==
    IF n = 0 THEN c
    ELSE CrcBits(IF c[1] % 2 = 1 THEN Xor32(Shr1(c), CrcPoly) ELSE Shr1(c), n - 1)

CrcTable == [b \in 0..255 |-> CrcBits(<<b, 0, 0, 0>>, 8)]

CrcStep(c, b) ==
    LET t == CrcTable[Xor8(c[1], b)]
    IN  <<Xor8(t[1], c[2]), Xor8(t[2], c[3]), Xor8(t[3], c[4]), t[4]>>

RECURSIVE CrcFold(_, _, _)
CrcFold(c, d, i) ==
    IF i > Len(d) THEN c
    ELSE CHOOSE r \in {CrcFold(x, d, i + 1) : x \in {CrcStep(c, d[i])}} : TRUE

\* crc32(0, data, len)
crc32(d) == Xor32(CrcFold(<<255, 255, 255, 255>>, d, 1), <<255, 255, 255, 255>>)

uboot_env_crc(d) == crc32(d)

(***************************************************************************)
(* C strings in a buffer.                                                  *)
(***************************************************************************)
\* strlen(d + p).  A string that is not terminated inside the buffer is an
\* out-of-bounds read in C; LastByteNul below shows no reachable payload has
\* one, and the scan is cut at the end of the buffer to keep it total.
RECURSIVE StrLenAt(_, _)
StrLenAt(d, p) ==
    IF p >= Len(d) \/ d[p + 1] = NUL THEN 0 ELSE 1 + StrLenAt(d, p + 1)

\* the C string at d + p
CStr(d, p) == SubSeq(d, p + 1, p + StrLenAt(d, p))

\* bytes `bs` stored at d + p
WriteAt(d, p, bs) ==
    [i \in 1..Len(d) |-> IF i > p /\ i <= p + Len(bs) THEN bs[i - p] ELSE d[i]]

\* snprintf(d + p, n, "%s", s): at most n - 1 characters and a NUL
Snprintf(d, p, n, s) ==
    IF n = 0 THEN d
    ELSE WriteAt(d, p, SubSeq(s, 1, Min(Len(s), n - 1)) \o <<NUL>>)

\* memmove(d + dst, d + src, n)
MemMove(d, dst, src, n) ==
    [i \in 1..Len(d) |-> IF i > dst /\ i <= dst + n THEN d[i - dst + src] ELSE d[i]]

\* EntryMatches without the test for '=' after the key
EntryMatches_prefix(d, p, key) ==
    /\ p + Len(key) < Len(d)
    /\ \A i \in 1..Len(key) : d[p + i] = key[i]

\* strncmp(d + p, key, strlen(key)) == 0 && (d + p)[strlen(key)] == '='
EntryMatches(d, p, key) ==
    /\ p + Len(key) < Len(d)
    /\ \A i \in 1..Len(key) : d[p + i] = key[i]
    /\ d[p + Len(key) + 1] = ChEq

\* the scan loop of uboot_env_get / uboot_env_set: offset of the entry of
\* `key` at or after p, or -1
RECURSIVE FindEntry(_, _, _)
FindEntry(d, key, p) ==
    IF ~(p < Len(d) /\ d[p + 1] # NUL) THEN -1
    ELSE IF EntryMatches(d, p, key) THEN p
    ELSE FindEntry(d, key, p + StrLenAt(d, p) + 1)

\* the "find end of environment" loop: offset of the first empty record
RECURSIVE FindEnd(_, _)
FindEnd(d, p) ==
    IF ~(p < Len(d) /\ d[p + 1] # NUL) THEN p
    ELSE FindEnd(d, p + StrLenAt(d, p) + 1)

(***************************************************************************)
(* Decimal conversion.                                                     *)
(***************************************************************************)
IsDigit(c) == c >= Ch0 /\ c <= Ch0 + 9

RECURSIVE AtoiDigits(_, _, _)
AtoiDigits(s, i, acc) ==
    IF i > Len(s) \/ ~IsDigit(s[i]) THEN acc
    ELSE AtoiDigits(s, i + 1, (acc * 10) + (s[i] - Ch0))

\* atoi(s): leading blanks, an optional sign, then digits up to the first
\* character that is not one
RECURSIVE atoi(_)
atoi(s) ==
    IF s = <<>> THEN 0
    ELSE IF s[1] = ChSpace THEN atoi(Tail(s))
    ELSE IF s[1] = ChMinus THEN -AtoiDigits(s, 2, 0)
    ELSE AtoiDigits(s, 1, 0)

\* snprintf(buf, 16, "%d", n) for n >= 0
RECURSIVE FormatD(_)
FormatD(n) ==
    IF n < 10 THEN <<Ch0 + n>> ELSE FormatD(n \div 10) \o <<Ch0 + (n % 10)>>

(***************************************************************************)
(* struct uboot_env and the Env Store (ubootenv.c).                        *)
(* data = <<>> stands for the NULL data pointer of a zeroed struct.        *)
(***************************************************************************)
DataSize == EnvSize - HeaderSize

ZeroEnv ==
    [crc |-> <<0, 0, 0, 0>>, flags |-> 0, data |-> <<>>, size |-> 0,
     data_size |-> 0, dirty |-> FALSE, boot_order |-> <<>>,
     boot_a_left |-> 0, boot_b_left |-> 0]

\* a value returned through a const char *: NULL or the C string pointed to
NoValue == [found |-> FALSE, val |-> <<>>]
Value(s) == [found |-> TRUE, val |-> s]

uboot_env_get(env, key) ==
    IF env.data = <<>> THEN NoValue
    ELSE LET e == FindEntry(env.data, key, 0)
         IN  IF e = -1 THEN NoValue
             ELSE Value(CStr(env.data, e + Len(key) + 1))

\* uboot_env_set: [env |-> the struct afterwards, ret |-> 0 or -1]
uboot_env_set(env, key, value) ==
    LET d         == env.data
        entry     == key \o <<ChEq>> \o value
        entry_len == Len(key) + 1 + Len(value) + 1
        existing  == FindEntry(d, key, 0)
        existing_len == StrLenAt(d, existing) + 1
        AppendEntry(d1) ==
            LET insert_pos == FindEnd(d1, 0)
                available  == env.data_size - insert_pos
            IN  IF entry_len + 1 > available
                THEN [env |-> [env EXCEPT !.data = d1], ret |-> -1]
                ELSE [env |-> [env EXCEPT
                                 !.data = WriteAt(Snprintf(d1, insert_pos, available, entry),
                                                  insert_pos + entry_len, <<NUL>>),
                                 !.dirty = TRUE],
                      ret |-> 0]
    IN  IF existing # -1
        THEN IF entry_len <= existing_len
             THEN \* the new value fits in place
                  [env |-> [env EXCEPT !.data = Snprintf(d, existing, existing_len, entry),
                                       !.dirty = TRUE],
                   ret |-> 0]
             ELSE \* remove the old entry and append the new one
                  AppendEntry(MemMove(d, existing, existing + existing_len,
                                 env.data_size - existing - existing_len))
        ELSE AppendEntry(d)

\* strlcpy(dst, src, n): the first n - 1 characters of src
strlcpy(src, n) == SubSeq(src, 1, Min(Len(src), n - 1))

ParseBootOrder(env) ==
    LET v == uboot_env_get(env, KeyBootOrder)
    IN  IF v.found
        THEN [env EXCEPT !.boot_order = strlcpy(v.val, BOOT_ORDER_BUF)]
        ELSE uboot_env_set([env EXCEPT !.boot_order = DefaultBootOrder],
                           KeyBootOrder, DefaultBootOrder).env

ParseBootALeft(env) ==
    LET v == uboot_env_get(env, KeyBootALeft)
    IN  IF v.found
        THEN [env EXCEPT !.boot_a_left = atoi(v.val)]
        ELSE uboot_env_set([env EXCEPT !.boot_a_left = UBOOT_ENV_MAX_BOOT_ATTEMPTS],
                           KeyBootALeft, FormatD(UBOOT_ENV_MAX_BOOT_ATTEMPTS)).env

ParseBootBLeft(env) ==
    LET v == uboot_env_get(env, KeyBootBLeft)
    IN  IF v.found
        THEN [env EXCEPT !.boot_b_left = atoi(v.val)]
        ELSE uboot_env_set([env EXCEPT !.boot_b_left = UBOOT_ENV_MAX_BOOT_ATTEMPTS],
                           KeyBootBLeft, FormatD(UBOOT_ENV_MAX_BOOT_ATTEMPTS)).env

uboot_env_parse_rauc_vars(env) == ParseBootBLeft(ParseBootALeft(ParseBootOrder(env)))

\* results of the block device calls made by uboot_env_init / uboot_env_save
IoOk == "ok"
IoOpenFail == "open_fail"
IoShort == "short"

\* uboot_env_init that keeps the payload it read when the CRC does not match
uboot_env_init_keep(env, image, size, io) ==
    IF size = 0 THEN [env |-> env, ret |-> -1]
    ELSE IF io # IoOk THEN [env |-> ZeroEnv, ret |-> -1]
    ELSE LET data == SubSeq(image, HeaderSize + 1, size)
             e0 == [ZeroEnv EXCEPT !.crc = SubSeq(image, 1, 4),
                                   !.flags = image[5],
                                   !.size = size,
                                   !.data_size = size - HeaderSize,
                                   !.data = data]
             e1 == IF uboot_env_crc(data) # e0.crc
                   THEN [e0 EXCEPT !.dirty = TRUE]
                   ELSE e0
         IN  [env |-> uboot_env_parse_rauc_vars(e1), ret |-> 0]

\* uboot_env_init on the `size` bytes `image` of the env region; `io` is the
\* outcome of bio_open / bio_read.  [env, ret]
uboot_env_init(env, image, size, io) ==
    IF size = 0 THEN [env |-> env, ret |-> -1]
    ELSE IF io # IoOk THEN [env |-> ZeroEnv, ret |-> -1]
    ELSE LET data == SubSeq(image, HeaderSize + 1, size)
             e0 == [ZeroEnv EXCEPT !.crc = SubSeq(image, 1, 4),
                                   !.flags = image[5],
                                   !.size = size,
                                   !.data_size = size - HeaderSize,
                                   !.data = data]
             e1 == IF uboot_env_crc(data) # e0.crc
                   THEN [e0 EXCEPT !.data = [i \in 1..Len(data) |-> NUL],
                                   !.dirty = TRUE]
                   ELSE e0
         IN  [env |-> uboot_env_parse_rauc_vars(e1), ret |-> 0]

\* EnvImage with the flags byte left zero
EnvImage_flags0(crc, data) == crc \o <<0>> \o data

\* the buffer uboot_env_save writes: [crc][flags][data]
EnvImage(crc, data) == crc \o <<UBOOT_ENV_FLAG_ACTIVE>> \o data

\* uboot_env_save: [env, ret, dev |-> the env region afterwards, writes |-> the
\* number of bio_write calls made].  `io` is the outcome of bio_open /
\* bio_write; a short write stores the first `part` bytes of the buffer.
uboot_env_save(env, dev, io, part) ==
    IF ~env.dirty THEN [env |-> env, ret |-> 0, dev |-> dev, writes |-> 0]
    ELSE LET crc == uboot_env_crc(env.data)
             e1  == [env EXCEPT !.crc = crc]
             buffer == EnvImage(crc, env.data)
         IN  IF io = IoOpenFail
             THEN [env |-> e1, ret |-> -1, dev |-> dev, writes |-> 0]
             ELSE IF io = IoShort
             THEN [env |-> e1, ret |-> -1,
                   dev |-> WriteAt(dev, 0, SubSeq(buffer, 1, part)), writes |-> 1]
             ELSE [env |-> [e1 EXCEPT !.dirty = FALSE], ret |-> 0,
                   dev |-> WriteAt(dev, 0, buffer), writes |-> 1]

(***************************************************************************)
(* Slot selector (ubootenv.c).                                             *)
(***************************************************************************)
\* the tokens strtok_r(s, " ") yields, in order
RECURSIVE Tokens(_)
Tokens(s) ==
    IF s = <<>> THEN <<>>
    ELSE IF s[1] = ChSpace THEN Tokens(Tail(s))
    ELSE LET n == CHOOSE k \in 1..Len(s) :
                      /\ \A i \in 1..k : s[i] # ChSpace
                      /\ (k = Len(s) \/ s[k + 1] = ChSpace)
         IN  <<SubSeq(s, 1, n)>> \o Tokens(SubSeq(s, n + 1, Len(s)))

\* the slot a token stands for when it has attempts left, else NUL
SlotWithAttempts(env, tok) ==
    IF tok[1] = ChA /\ env.boot_a_left > 0 THEN ChA
    ELSE IF tok[1] = ChB /\ env.boot_b_left > 0 THEN ChB
    ELSE NUL

RECURSIVE FirstWithAttempts(_, _, _)
FirstWithAttempts(env, toks, i) ==
    IF i > Len(toks) THEN NUL
    ELSE IF SlotWithAttempts(env, toks[i]) # NUL THEN SlotWithAttempts(env, toks[i])
    ELSE FirstWithAttempts(env, toks, i + 1)

uboot_env_get_boot_slot(env) ==
    LET r == FirstWithAttempts(env, Tokens(env.boot_order), 1)
    IN  IF r # NUL THEN r
        ELSE \* all slots exhausted: env->boot_order[0]
             IF env.boot_order = <<>> THEN NUL ELSE env.boot_order[1]

\* uboot_env_decrement_boot_left testing counter >= 0
uboot_env_decrement_boot_left_ge(env, slot) ==
    IF slot # ChA /\ slot # ChB THEN [env |-> env, ret |-> -1]
    ELSE LET counter  == IF slot = ChA THEN env.boot_a_left ELSE env.boot_b_left
             var_name == IF slot = ChA THEN KeyBootALeft ELSE KeyBootBLeft
             e1 == IF slot = ChA THEN [env EXCEPT !.boot_a_left = counter - 1]
                                 ELSE [env EXCEPT !.boot_b_left = counter - 1]
         IN  IF counter >= 0
             THEN [env |-> uboot_env_set(e1, var_name,
                                         IF counter = 0 THEN <<ChMinus, Ch0 + 1>>
                                         ELSE FormatD(counter - 1)).env,
                   ret |-> 0]
             ELSE [env |-> env, ret |-> -1]

\* uboot_env_decrement_boot_left: [env, ret]
uboot_env_decrement_boot_left(env, slot) ==
    IF slot # ChA /\ slot # ChB THEN [env |-> env, ret |-> -1]
    ELSE LET counter  == IF slot = ChA THEN env.boot_a_left ELSE env.boot_b_left
             var_name == IF slot = ChA THEN KeyBootALeft ELSE KeyBootBLeft
             e1 == IF slot = ChA THEN [env EXCEPT !.boot_a_left = counter - 1]
                                 ELSE [env EXCEPT !.boot_b_left = counter - 1]
         IN  IF counter > 0
             THEN \* the result of uboot_env_set is not looked at
                  [env |-> uboot_env_set(e1, var_name, FormatD(counter - 1)).env,
                   ret |-> 0]
             ELSE [env |-> env, ret |-> -1]

\* index of the first token at or after i whose first character is `c`, or 0
RECURSIVE TokenIndex(_, _, _)
TokenIndex(toks, c, i) ==
    IF i > Len(toks) THEN 0
    ELSE IF toks[i][1] = c THEN i
    ELSE TokenIndex(toks, c, i + 1)

\* uboot_env_get_next_slot looking at every slot once current was seen
uboot_env_get_next_slot_all(env, current_slot) ==
    LET toks == Tokens(env.boot_order)
        cur  == TokenIndex(toks, current_slot, 1)
    IN  IF cur = 0 THEN NUL ELSE FirstWithAttempts(env, toks, 1)

uboot_env_get_next_slot(env, current_slot) ==
    LET toks == Tokens(env.boot_order)
        cur  == TokenIndex(toks, current_slot, 1)
    IN  IF cur = 0 THEN NUL ELSE FirstWithAttempts(env, toks, cur + 1)

(***************************************************************************)
(* A/B runtime state and pre-boot step (ab.c).                             *)
(***************************************************************************)
\* lk2nd_boot_ab_init("mmcblk0p20", 0x10000, 0x20000) and
\* lk2nd_boot_ab_set_offsets(0x00100000, 0x04100000) in lk2nd_scan_devices
EnvOffset == 65536
SlotOffsetA == 1048576
SlotOffsetB == 68157440

ZeroAb ==
    [partition |-> "", offset |-> 0, size |-> 0, initialized |-> FALSE,
     current_slot |-> NUL, boot_offset_a |-> 0, boot_offset_b |-> 0]

\* lk2nd_boot_ab_init without the "already initialized" return
lk2nd_boot_ab_init_again(ab, env, resolved, offset, size, dev, io) ==
    IF resolved = "" THEN [ab |-> ab, env |-> env, reads |-> 0]
    ELSE LET r == uboot_env_init(env, dev, size, io)
             reads == IF size = 0 \/ io = IoOpenFail THEN 0 ELSE 1
         IN  IF r.ret < 0 THEN [ab |-> ab, env |-> r.env, reads |-> reads]
             ELSE [ab |-> [ab EXCEPT !.partition = resolved,
                                     !.offset = offset,
                                     !.size = size,
                                     !.initialized = TRUE,
                                     !.current_slot = uboot_env_get_boot_slot(r.env)],
                   env |-> r.env, reads |-> reads]

\* lk2nd_boot_ab_init that starts every process on slot 'A'
lk2nd_boot_ab_init_slotA(ab, env, resolved, offset, size, dev, io) ==
    IF ab.initialized THEN [ab |-> ab, env |-> env, reads |-> 0]
    ELSE IF resolved = "" THEN [ab |-> ab, env |-> env, reads |-> 0]
    ELSE LET r == uboot_env_init(env, dev, size, io)
             reads == IF size = 0 \/ io = IoOpenFail THEN 0 ELSE 1
         IN  IF r.ret < 0 THEN [ab |-> ab, env |-> r.env, reads |-> reads]
             ELSE [ab |-> [ab EXCEPT !.partition = resolved,
                                     !.offset = offset,
                                     !.size = size,
                                     !.initialized = TRUE,
                                     !.current_slot = ChA],
                   env |-> r.env, reads |-> reads]

\* lk2nd_boot_ab_init: [ab, env, reads |-> the number of bio_read calls
\* uboot_env_init made].  `resolved` is the result of
\* resolve_base_device ("" when no policy finds the device), `dev` the env
\* region of that device, `io` the outcome of reading it.
lk2nd_boot_ab_init(ab, env, resolved, offset, size, dev, io) ==
    IF ab.initialized THEN [ab |-> ab, env |-> env, reads |-> 0]
    ELSE IF resolved = "" THEN [ab |-> ab, env |-> env, reads |-> 0]
    ELSE LET r == uboot_env_init(env, dev, size, io)
             reads == IF size = 0 \/ io = IoOpenFail THEN 0 ELSE 1
         IN  IF r.ret < 0 THEN [ab |-> ab, env |-> r.env, reads |-> reads]
             ELSE [ab |-> [ab EXCEPT !.partition = resolved,
                                     !.offset = offset,
                                     !.size = size,
                                     !.initialized = TRUE,
                                     !.current_slot = uboot_env_get_boot_slot(r.env)],
                   env |-> r.env, reads |-> reads]

\* lk2nd_boot_ab_get_slot that answers as if A/B were not initialized
lk2nd_boot_ab_get_slot_uninit(ab) == ChA

lk2nd_boot_ab_get_slot(ab) == IF ~ab.initialized THEN ChA ELSE ab.current_slot

\* NULL is ""
lk2nd_boot_ab_get_base_device(ab) == IF ~ab.initialized THEN "" ELSE ab.partition

lk2nd_boot_ab_set_offsets(ab, offset_a, offset_b) ==
    [ab EXCEPT !.boot_offset_a = offset_a, !.boot_offset_b = offset_b]

lk2nd_boot_ab_get_offset(ab) ==
    IF ~ab.initialized THEN 0
    ELSE IF ab.current_slot = ChA THEN ab.boot_offset_a
    ELSE IF ab.current_slot = ChB THEN ab.boot_offset_b
    ELSE 0

\* lk2nd_boot_ab_pre_boot that decrements the successor and stays on the
\* exhausted slot
lk2nd_boot_ab_pre_boot_noswitch(ab, env, dev, io, part) ==
    IF ~ab.initialized
    THEN [ab |-> ab, env |-> env, dev |-> dev, writes |-> 0,
          first |-> 1, next |-> NUL, second |-> 1, saved |-> 1]
    ELSE LET d1   == uboot_env_decrement_boot_left(env, ab.current_slot)
             next == uboot_env_get_next_slot(d1.env, ab.current_slot)
             switch == d1.ret < 0 /\ next # NUL
             d2   == IF switch THEN uboot_env_decrement_boot_left(d1.env, next)
                     ELSE [env |-> d1.env, ret |-> 1]
             sv   == uboot_env_save(d2.env, dev, io, part)
         IN  [ab |-> ab, env |-> sv.env, dev |-> sv.dev, writes |-> sv.writes,
              first |-> d1.ret, next |-> IF d1.ret < 0 THEN next ELSE NUL,
              second |-> d2.ret, saved |-> sv.ret]

\* lk2nd_boot_ab_pre_boot: [ab, env, dev, writes] and, for the properties,
\* what its calls returned: first (the first decrement), next (get_next_slot,
\* NUL when not called or none), second (the second decrement, 1 when not
\* called), saved (uboot_env_save, 1 when not called).
lk2nd_boot_ab_pre_boot(ab, env, dev, io, part) ==
    IF ~ab.initialized
    THEN [ab |-> ab, env |-> env, dev |-> dev, writes |-> 0,
          first |-> 1, next |-> NUL, second |-> 1, saved |-> 1]
    ELSE LET d1   == uboot_env_decrement_boot_left(env, ab.current_slot)
             next == uboot_env_get_next_slot(d1.env, ab.current_slot)
             switch == d1.ret < 0 /\ next # NUL
             ab1  == IF switch THEN [ab EXCEPT !.current_slot = next] ELSE ab
             d2   == IF switch THEN uboot_env_decrement_boot_left(d1.env, next)
                     ELSE [env |-> d1.env, ret |-> 1]
             sv   == uboot_env_save(d2.env, dev, io, part)
         IN  [ab |-> ab1, env |-> sv.env, dev |-> sv.dev, writes |-> sv.writes,
              first |-> d1.ret, next |-> IF d1.ret < 0 THEN next ELSE NUL,
              second |-> d2.ret, saved |-> sv.ret]

(***************************************************************************)
(* Env images the device can hold.                                         *)
(***************************************************************************)
\* a payload of DataSize bytes: the records, each NUL-terminated, then zeros
RECURSIVE Records(_)
Records(rs) ==
    IF rs = <<>> THEN <<>> ELSE Head(rs) \o <<NUL>> \o Records(Tail(rs))

Pack(rs) ==
    LET b == Records(rs)
    IN  [i \in 1..DataSize |-> IF i <= Len(b) THEN b[i] ELSE NUL]

Rec(key, value) == key \o <<ChEq>> \o value

\* a valid image: the CRC of the payload, flags, the payload
ValidImage(payload) == EnvImage(crc32(payload), payload)

\* never written: erased flash
ErasedImage == [i \in 1..EnvSize |-> 255]

\* "F=xx...x", a variable of another user of the env that leaves `spare`
\* free bytes after BOOT_ORDER and BOOT_A_LEFT
Filler(spare) ==
    Rec(<<70>>, [i \in 1..(DataSize - 33 - spare) |-> 120])

OrderAB == <<ChA, ChSpace, ChB>>
OrderBA == <<ChB, ChSpace, ChA>>
OrderLead == <<ChSpace, ChA, ChSpace, ChB>>
OrderCB == <<ChC, ChSpace, ChB>>

Payloads ==
    [default   |-> Pack(<<Rec(KeyBootOrder, OrderAB), Rec(KeyBootALeft, FormatD(3)),
                          Rec(KeyBootBLeft, FormatD(3))>>),
     a10       |-> Pack(<<Rec(KeyBootALeft, FormatD(10)), Rec(KeyBootBLeft, FormatD(1)),
                          Rec(KeyBootOrder, OrderAB)>>),
     a100      |-> Pack(<<Rec(KeyBootOrder, OrderBA), Rec(KeyBootBLeft, FormatD(0)),
                          Rec(KeyBootALeft, FormatD(100))>>),
     exhausted |-> Pack(<<Rec(KeyBootOrder, OrderAB), Rec(KeyBootALeft, FormatD(0)),
                          Rec(KeyBootBLeft, FormatD(0))>>),
     lead      |-> Pack(<<Rec(KeyBootOrder, OrderLead), Rec(KeyBootALeft, FormatD(0)),
                          Rec(KeyBootBLeft, FormatD(0))>>),
     ba        |-> Pack(<<Rec(KeyBootOrder, OrderBA), Rec(KeyBootALeft, FormatD(1)),
                          Rec(KeyBootBLeft, FormatD(0))>>),
     a0        |-> Pack(<<Rec(KeyBootOrder, OrderAB), Rec(KeyBootALeft, FormatD(0)),
                          Rec(KeyBootBLeft, FormatD(2))>>),
     cb        |-> Pack(<<Rec(KeyBootOrder, OrderCB), Rec(KeyBootALeft, FormatD(2)),
                          Rec(KeyBootBLeft, FormatD(0))>>),
     noorder   |-> Pack(<<Rec(KeyBootOrder, <<>>), Rec(KeyBootALeft, FormatD(0)),
                          Rec(KeyBootBLeft, FormatD(0))>>),
     order0    |-> Pack(<<Rec(KeyBootOrder, <<>>), Rec(KeyBootALeft, FormatD(2))>>),
     b10       |-> Pack(<<Rec(KeyBootBLeft, FormatD(10)), Rec(KeyBootALeft, FormatD(0)),
                          Rec(KeyBootOrder, OrderBA)>>),
     full      |-> Pack(<<Rec(KeyBootOrder, OrderAB), Rec(KeyBootALeft, FormatD(1)),
                          Filler(1)>>),
     tight     |-> Pack(<<Rec(KeyBootOrder, OrderAB), Rec(KeyBootALeft, FormatD(1)),
                          Filler(0)>>),
     blank     |-> Pack(<<>>)]

(***************************************************************************)
(* State.                                                                  *)
(*   dev   the env region [offset, offset + size) of the base device       *)
(*   env   ab_state.env, the cached struct uboot_env                       *)
(*   ab    the other fields of ab_state                                    *)
(*   pc    where the caller is: "api" (a caller of the Env Store API),     *)
(*         or the dispatcher's position in lk2nd_boot / lk2nd_scan_devices *)
(*   loc   the locals of lk2nd_scan_devices                                *)
(*   last  the last operation: its arguments, results and the state it     *)
(*         started from                                                    *)
(*   g     bookkeeping of the behaviour so far, read only by properties    *)
(***************************************************************************)
VARIABLES dev, env, ab, pc, loc, last, g

vars == <<dev, env, ab, pc, loc, last, g>>

NoLoc ==
    [target_offset |-> 0, from |-> "none", mnt |-> "none", mnt_off |-> 0,
     sub_start |-> 0, sub_len |-> 0, scan_left |-> 0]

NoLast ==
    [op |-> "none", key |-> <<>>, val |-> <<>>, slot |-> NUL, io |-> IoOk,
     ret |-> 0, res |-> NoValue, chr |-> NUL, writes |-> 0,
     first |-> 1, next |-> NUL, second |-> 1, crc_ok |-> TRUE, reads |-> 0,
     penv |-> ZeroEnv, pdev |-> <<>>, pab |-> ZeroAb,
     prev |-> <<"none", <<>>, <<>>, 0>>]

NoG ==
    [img |-> "", ops |-> 0, attempts |-> 0, chain |-> 0,
     faults |-> FALSE, preboots |-> 0, since |-> 0]

\* whether the CRC stored in an image matches its payload
CrcMatches(image) ==
    uboot_env_crc(SubSeq(image, HeaderSize + 1, Len(image))) = SubSeq(image, 1, 4)

(***************************************************************************)
(* SpecSel: a caller of the Env Store and Slot Selector API                *)
(* (uboot_env_init, uboot_env_save, uboot_env_decrement_boot_left,         *)
(* uboot_env_get_boot_slot, uboot_env_get_next_slot) on one env region.    *)
(***************************************************************************)
SelImages ==
    {"default", "a10", "a100", "exhausted", "lead", "ba", "a0", "cb", "noorder",
     "order0", "full", "blank"}

IoResults == {IoOk, IoOpenFail, IoShort}

\* a short write stops after the header or in the middle of the payload
ShortParts == {HeaderSize, HeaderSize + 16}

Slots == {ChA, ChB, ChC}

ConstructedFrom(image, name) ==
    /\ dev = image
    /\ env = uboot_env_init(ZeroEnv, image, EnvSize, IoOk).env
    /\ ab = ZeroAb
    /\ pc = "api"
    /\ loc = NoLoc
    /\ last = [NoLast EXCEPT !.op = "init", !.pdev = image,
                             !.crc_ok = CrcMatches(image)]
    /\ g = [NoG EXCEPT !.img = name,
                       !.chain = IF CrcMatches(image) THEN 0 ELSE 1]

SelInit ==
    \/ \E n \in SelImages : ConstructedFrom(ValidImage(Payloads[n]), n)
    \/ ConstructedFrom(ErasedImage, "erased")

Live == pc = "api" /\ env.data # <<>>

\* the variable and the cached counter of a slot
LeftKey(slot) ==
    IF slot = ChA THEN KeyBootALeft ELSE IF slot = ChB THEN KeyBootBLeft ELSE <<>>
Left(e, slot) ==
    IF slot = ChA THEN e.boot_a_left ELSE IF slot = ChB THEN e.boot_b_left ELSE 0

ApiInit(io) ==
    /\ pc = "api"
    /\ g.ops < MaxOps
    /\ LET r == uboot_env_init(env, dev, EnvSize, io)
           ok == CrcMatches(dev)
       IN  /\ env' = r.env
           /\ last' = [NoLast EXCEPT !.op = "init", !.io = io, !.ret = r.ret,
                                     !.crc_ok = ok, !.penv = env, !.pdev = dev]
           /\ g' = [g EXCEPT !.ops = @ + 1,
                             !.chain = IF r.ret # 0 THEN 0
                                       ELSE IF ~ok THEN 1
                                       ELSE IF g.chain = 2 THEN 3 ELSE 0]
    /\ UNCHANGED <<dev, ab, pc, loc>>

ApiSave(io, part) ==
    /\ Live
    /\ g.ops < MaxOps
    /\ LET r == uboot_env_save(env, dev, io, part)
       IN  /\ env' = r.env
           /\ dev' = r.dev
           /\ last' = [NoLast EXCEPT !.op = "save", !.io = io, !.ret = r.ret,
                                     !.writes = r.writes, !.penv = env, !.pdev = dev,
                                     !.prev = <<last.op, last.key, last.val, last.ret>>]
           /\ g' = [g EXCEPT !.ops = @ + 1,
                             !.chain = IF r.ret = 0 /\ g.chain = 1 THEN 2 ELSE 0]
    /\ UNCHANGED <<ab, pc, loc>>

ApiDecrement(slot) ==
    /\ Live
    /\ g.ops < MaxOps
    /\ LET r == uboot_env_decrement_boot_left(env, slot)
       IN  /\ env' = r.env
           /\ last' = [NoLast EXCEPT !.op = "decrement", !.slot = slot,
                                     !.key = LeftKey(slot), !.ret = r.ret,
                                     !.penv = env, !.pdev = dev]
    /\ g' = [g EXCEPT !.ops = @ + 1, !.chain = 0]
    /\ UNCHANGED <<dev, ab, pc, loc>>

ApiGetBootSlot ==
    /\ Live
    /\ last.op \notin {"get_boot_slot", "get_next_slot"}
    /\ last' = [NoLast EXCEPT !.op = "get_boot_slot",
                              !.chr = uboot_env_get_boot_slot(env), !.penv = env]
    /\ g' = [g EXCEPT !.chain = 0]
    /\ UNCHANGED <<dev, env, ab, pc, loc>>

ApiGetNextSlot(cur) ==
    /\ Live
    /\ last.op \notin {"get_boot_slot", "get_next_slot"}
    /\ last' = [NoLast EXCEPT !.op = "get_next_slot", !.slot = cur,
                              !.chr = uboot_env_get_next_slot(env, cur), !.penv = env]
    /\ g' = [g EXCEPT !.chain = 0]
    /\ UNCHANGED <<dev, env, ab, pc, loc>>

SelNext ==
    \/ \E io \in IoResults : ApiInit(io)
    \/ \E io \in IoResults, part \in ShortParts : ApiSave(io, part)
    \/ \E slot \in Slots : ApiDecrement(slot)
    \/ ApiGetBootSlot
    \/ \E cur \in Slots : ApiGetNextSlot(cur)

SpecSel == SelInit /\ [][SelNext]_vars

(***************************************************************************)
(* SpecKV: a caller of uboot_env_set / uboot_env_get on an initialized     *)
(* env.                                                                    *)
(***************************************************************************)
KVImages == {"default", "a10", "full", "tight", "blank"}

\* "K", "KK"
KeyK == <<75>>
KeyKK == <<75, 75>>

KVKeys == {KeyBootALeft, KeyK, KeyKK}

\* "", "9", "10"
KVValues == {<<>>, FormatD(9), FormatD(10)}

KVInit == \E n \in KVImages : ConstructedFrom(ValidImage(Payloads[n]), n)

ApiSet(key, value) ==
    /\ Live
    /\ g.ops < MaxOps
    /\ LET r == uboot_env_set(env, key, value)
       IN  /\ env' = r.env
           /\ last' = [NoLast EXCEPT !.op = "set", !.key = key, !.val = value,
                                     !.ret = r.ret, !.penv = env]
    /\ g' = [g EXCEPT !.ops = @ + 1]
    /\ UNCHANGED <<dev, ab, pc, loc>>

ApiGet(key) ==
    /\ Live
    /\ last.op # "get"
    /\ last' = [NoLast EXCEPT !.op = "get", !.key = key,
                              !.res = uboot_env_get(env, key), !.penv = env,
                              !.prev = <<last.op, last.key, last.val, last.ret>>]
    /\ UNCHANGED <<dev, env, ab, pc, loc, g>>

KVNext ==
    \/ \E key \in KVKeys, value \in KVValues : ApiSet(key, value)
    \/ \E key \in KVKeys : ApiGet(key)

SpecKV == KVInit /\ [][KVNext]_vars

(***************************************************************************)
(* Spec: the boot dispatcher.  lk2nd_boot() runs lk2nd_scan_devices(),     *)
(* which initializes A/B, publishes and mounts the selected slot, and      *)
(* calls lk2nd_try_extlinux() on the mount; when that returns, or nothing  *)
(* could be mounted, lk2nd_boot() returns and may be called again.  The    *)
(* device may reset at any point, which loses ab_state and keeps the env   *)
(* region.                                                                 *)
(***************************************************************************)
BootImages == {"default", "exhausted", "lead", "full"}

\* the bytes a short write of the pre-boot save gets onto the device
BootShortParts == {HeaderSize + 16}

\* the name the base device resolves to
ResolvedName == "wrp0p19"

\* leaf block devices the fallback loop visits
NumBdevs == 1

Init ==
    /\ \/ \E n \in BootImages : dev = ValidImage(Payloads[n]) /\ g = [NoG EXCEPT !.img = n]
       \/ dev = ErasedImage /\ g = [NoG EXCEPT !.img = "erased"]
    /\ env = ZeroEnv
    /\ ab = ZeroAb
    /\ pc = "off"
    /\ loc = NoLoc
    /\ last = NoLast

\* lk2nd_boot() up to the A/B decision of lk2nd_scan_devices()
ScanStart(resolved, io) ==
    /\ pc \in {"off", "idle"}
    /\ g.attempts < MaxAttempts
    /\ LET i == lk2nd_boot_ab_init(ab, env, resolved, EnvOffset, EnvSize, dev, io)
           r == IF lk2nd_boot_ab_get_base_device(ab) = ""
                THEN [ab |-> lk2nd_boot_ab_set_offsets(i.ab, SlotOffsetA, SlotOffsetB),
                      env |-> i.env]
                ELSE [ab |-> ab, env |-> env]
           base_device == lk2nd_boot_ab_get_base_device(r.ab)
       IN  /\ ab' = r.ab
           /\ env' = r.env
           /\ loc' = [NoLoc EXCEPT !.target_offset = lk2nd_boot_ab_get_offset(r.ab),
                                   !.scan_left = NumBdevs]
           /\ pc' = IF base_device # "" THEN "ab" ELSE "fallback"
           /\ g' = [g EXCEPT !.preboots = 0,
                             !.faults = @ \/ (lk2nd_boot_ab_get_base_device(ab) = ""
                                              /\ (resolved = "" \/ io # IoOk))]
    /\ UNCHANGED <<dev, last>>

\* the geometry of the base device (parent_bdev): 128 MiB of 512-byte blocks
BlockSize == 512
BlockCount == 262144

\* the A/B branch: publish "ab-slot" at target_offset and mount it, or mount
\* the base device when there is no offset.  sub_start and sub_len are the
\* start_block and subdev_len of the sub-device that got mounted.
AbMount(outcome) ==
    /\ pc = "ab"
    /\ outcome \in (IF loc.target_offset > 0
                    THEN {"open_fail", "publish_fail", "mount_fail", "mounted"}
                    ELSE {"mount_fail", "mounted"})
    /\ IF outcome = "mounted"
       THEN /\ pc' = "extlinux"
            /\ loc' = [loc EXCEPT !.from = "ab",
                                  !.mnt = IF loc.target_offset > 0 THEN "ab-slot"
                                          ELSE ab.partition,
                                  !.mnt_off = loc.target_offset,
                                  !.sub_start = loc.target_offset \div BlockSize,
                                  !.sub_len = IF loc.target_offset > 0
                                              THEN BlockCount
                                                   - (loc.target_offset \div BlockSize)
                                              ELSE 0]
       ELSE /\ pc' = "fallback"
            /\ loc' = loc
    /\ UNCHANGED <<dev, env, ab, last, g>>

\* FallbackStep that, after a failed A/B attempt, mounts the other slot
FallbackStep_otherslot(outcome) ==
    /\ pc = "fallback"
    /\ loc.scan_left > 0
    /\ outcome \in {"skip", "mount_fail", "mounted"}
    /\ IF outcome = "mounted"
       THEN /\ pc' = "extlinux"
            /\ loc' = [loc EXCEPT !.from = "scan",
                                  !.mnt = IF ab.initialized THEN "ab-slot" ELSE "bdev",
                                  !.mnt_off = IF ~ab.initialized THEN 0
                                              ELSE IF loc.target_offset = ab.boot_offset_a
                                              THEN ab.boot_offset_b
                                              ELSE ab.boot_offset_a,
                                  !.scan_left = @ - 1]
       ELSE /\ pc' = "fallback"
            /\ loc' = [loc EXCEPT !.scan_left = @ - 1]
    /\ UNCHANGED <<dev, env, ab, last, g>>

\* the fallback loop over the leaf block devices: one device
FallbackStep(outcome) ==
    /\ pc = "fallback"
    /\ loc.scan_left > 0
    /\ outcome \in {"skip", "mount_fail", "mounted"}
    /\ IF outcome = "mounted"
       THEN /\ pc' = "extlinux"
            /\ loc' = [loc EXCEPT !.from = "scan", !.mnt = "bdev", !.mnt_off = 0,
                                  !.scan_left = @ - 1]
       ELSE /\ pc' = "fallback"
            /\ loc' = [loc EXCEPT !.scan_left = @ - 1]
    /\ UNCHANGED <<dev, env, ab, last, g>>

\* the end of the list: "Bootable file system not found"
FallbackEnd ==
    /\ pc = "fallback"
    /\ loc.scan_left = 0
    /\ pc' = "idle"
    /\ UNCHANGED <<dev, env, ab, loc, last, g>>

\* lk2nd_try_extlinux(mountpoint): the pre-boot step, the selection of the
\* slot's label, and the hand-off to the kernel, which does not return.  It
\* returns when no label can be booted.
TryExtlinux(io, part, label_found) ==
    /\ pc = "extlinux"
    /\ LET r == lk2nd_boot_ab_pre_boot(ab, env, dev, io, part)
       IN  /\ ab' = r.ab
           /\ env' = r.env
           /\ dev' = r.dev
           /\ last' = IF ab.initialized
                      THEN [NoLast EXCEPT !.op = "pre_boot", !.io = io, !.ret = r.saved,
                                          !.writes = r.writes, !.first = r.first,
                                          !.next = r.next, !.second = r.second,
                                          !.slot = ab.current_slot,
                                          !.penv = env, !.pdev = dev, !.pab = ab]
                      ELSE last
           /\ g' = IF ab.initialized
                   THEN [g EXCEPT !.attempts = @ + 1, !.preboots = @ + 1,
                                  !.since = @ + 1,
                                  !.faults = @ \/ r.saved # 0]
                   ELSE g
    /\ pc' = IF label_found THEN "handoff"
             ELSE IF loc.from = "ab" THEN "idle" ELSE "fallback"
    /\ UNCHANGED loc

\* a reset after lk2nd_boot() returned or handed off; the env region is the
\* only state that survives it
Reset ==
    /\ pc \in {"idle", "handoff"}
    /\ g.attempts < MaxAttempts
    /\ pc' = "off"
    /\ env' = ZeroEnv
    /\ ab' = ZeroAb
    /\ loc' = NoLoc
    /\ g' = [g EXCEPT !.preboots = 0, !.since = 0]
    /\ UNCHANGED <<dev, last>>

Next ==
    \/ \E resolved \in {ResolvedName, ""}, io \in IoResults : ScanStart(resolved, io)
    \/ \E outcome \in {"open_fail", "publish_fail", "mount_fail", "mounted"} :
           AbMount(outcome)
    \/ \E outcome \in {"skip", "mount_fail", "mounted"} : FallbackStep(outcome)
    \/ FallbackEnd
    \/ \E io \in IoResults, part \in BootShortParts, label_found \in BOOLEAN :
           TryExtlinux(io, part, label_found)
    \/ Reset

Spec == Init /\ [][Next]_vars

(***************************************************************************)
(* The payload as the data model reads it: the NUL-terminated records up   *)
(* to the first empty one, each KEY=VALUE split at its first '='.          *)
(***************************************************************************)
RECURSIVE RecordsOf(_, _)
RecordsOf(d, p) ==
    IF p >= Len(d) \/ d[p + 1] = NUL THEN <<>>
    ELSE <<CStr(d, p)>> \o RecordsOf(d, p + StrLenAt(d, p) + 1)

\* index of the first '=' of a record, or 0
EqPos(r) ==
    IF \E i \in 1..Len(r) : r[i] = ChEq
    THEN CHOOSE i \in 1..Len(r) : r[i] = ChEq /\ \A j \in 1..(i - 1) : r[j] # ChEq
    ELSE 0

KeyOf(r) == IF EqPos(r) = 0 THEN r ELSE SubSeq(r, 1, EqPos(r) - 1)
ValueOf(r) == IF EqPos(r) = 0 THEN <<>> ELSE SubSeq(r, EqPos(r) + 1, Len(r))

HasKey(d, key) ==
    \E i \in 1..Len(RecordsOf(d, 0)) : KeyOf(RecordsOf(d, 0)[i]) = key

\* the value of the first record of `key`
Lookup(d, key) ==
    LET rs == RecordsOf(d, 0)
        i  == CHOOSE j \in 1..Len(rs) :
                  KeyOf(rs[j]) = key /\ \A k \in 1..(j - 1) : KeyOf(rs[k]) # key
    IN  ValueOf(rs[i])

(***************************************************************************)
(* C8: after uboot_env_set(k, v) returns ok, uboot_env_get(k) returns      *)
(* exactly v (k absent before, replaced in place, or replaced by a longer  *)
(* value); uboot_env_get of a key with no record in the payload returns    *)
(* none, also when the key is a proper prefix of another key.              *)
(***************************************************************************)
C8_SetThenGet ==
    /\ (last.op = "set" /\ last.ret = 0)
           => uboot_env_get(env, last.key) = Value(last.val)
    /\ (last.op = "get" /\ last.prev[1] = "set" /\ last.prev[4] = 0
                        /\ last.prev[2] = last.key)
           => last.res = Value(last.prev[3])
    /\ (last.op = "get" /\ ~HasKey(last.penv.data, last.key))
           => last.res = NoValue

\* a value was replaced by a longer one and read back
C8_Witness_Longer ==
    /\ last.op = "get" /\ last.prev = <<"set", KeyBootALeft, FormatD(10), 0>>
    /\ last.key = KeyBootALeft
    /\ last.res = Value(FormatD(10))
    /\ g.img = "default"

\* the payload of an image of the env region
PayloadOf(image) == SubSeq(image, HeaderSize + 1, Len(image))

(***************************************************************************)
(* C2: for each slot and every counter value n > 0 (multi-digit values     *)
(* included), after uboot_env_decrement_boot_left returns ok the cached    *)
(* counter is n - 1 and the payload value of BOOT_<slot>_LEFT is the       *)
(* decimal string of n - 1; after a following successful uboot_env_save    *)
(* the on-device payload holds n - 1 for that key.                         *)
(***************************************************************************)
C2_DecrementStored ==
    /\ (last.op = "decrement" /\ last.ret = 0)
           => LET n == Left(last.penv, last.slot)
              IN  /\ n > 0
                  /\ Left(env, last.slot) = n - 1
                  /\ HasKey(env.data, last.key)
                  /\ Lookup(env.data, last.key) = FormatD(n - 1)
    /\ (last.op = "save" /\ last.ret = 0 /\ last.prev[1] = "decrement"
                         /\ last.prev[4] = 0)
           => /\ HasKey(PayloadOf(dev), last.prev[2])
              /\ Lookup(PayloadOf(dev), last.prev[2])
                     = FormatD(IF last.prev[2] = KeyBootALeft THEN env.boot_a_left
                               ELSE env.boot_b_left)

\* C2 where the payload has room for the counter's entry, or already holds it
C2_DecrementStored_WithRoom ==
    (g.img # "full") => C2_DecrementStored

(***************************************************************************)
(* C3: uboot_env_get_boot_slot returns the first slot letter of BOOT_ORDER *)
(* whose counter is > 0; if there is none it returns the first slot of     *)
(* BOOT_ORDER.  The returned letter occurs in BOOT_ORDER.                  *)
(***************************************************************************)
IsSlotLetter(c) == c = ChA \/ c = ChB

\* the slot letters of a BOOT_ORDER value, in order, unknown letters skipped
SlotLetters(order) == SelectSeq(order, IsSlotLetter)

RECURSIVE FirstLive(_, _, _)
FirstLive(e, letters, i) ==
    IF i > Len(letters) THEN NUL
    ELSE IF Left(e, letters[i]) > 0 THEN letters[i]
    ELSE FirstLive(e, letters, i + 1)

\* the first slot named in a BOOT_ORDER value: its first character that is
\* not a separator
FirstSlot(order) ==
    LET named == SelectSeq(order, LAMBDA c : c # ChSpace)
    IN  IF named # <<>> THEN named[1] ELSE NUL

ExpectedBootSlot(e) ==
    LET letters == SlotLetters(e.boot_order)
    IN  IF FirstLive(e, letters, 1) # NUL THEN FirstLive(e, letters, 1)
        ELSE FirstSlot(e.boot_order)

C3_BootSlot ==
    (last.op = "get_boot_slot")
        => /\ last.chr = ExpectedBootSlot(last.penv)
           /\ \E i \in 1..Len(last.penv.boot_order) : last.penv.boot_order[i] = last.chr
           /\ last.chr # ChSpace

(***************************************************************************)
(* C6: uboot_env_get_next_slot(current) returns the first slot strictly    *)
(* after the occurrence of current in BOOT_ORDER whose counter is > 0, and *)
(* none when current does not occur or no later slot has a counter > 0.    *)
(* It never returns a slot that precedes current nor one whose counter     *)
(* is 0.                                                                   *)
(***************************************************************************)
\* position of the first occurrence of c in a BOOT_ORDER value, or 0
PosIn(order, c) ==
    IF \E i \in 1..Len(order) : order[i] = c
    THEN CHOOSE i \in 1..Len(order) : order[i] = c /\ \A j \in 1..(i - 1) : order[j] # c
    ELSE 0

ExpectedNextSlot(e, cur) ==
    LET p == PosIn(e.boot_order, cur)
    IN  IF p = 0 THEN NUL
        ELSE FirstLive(e, SlotLetters(SubSeq(e.boot_order, p + 1, Len(e.boot_order))), 1)

C6_NextSlot ==
    (last.op = "get_next_slot")
        => /\ last.chr = ExpectedNextSlot(last.penv, last.slot)
           /\ last.chr # NUL
                  => /\ Left(last.penv, last.chr) > 0
                     /\ PosIn(last.penv.boot_order, last.chr)
                            > PosIn(last.penv.boot_order, last.slot)

\* next_slot('A') = 'B' on "A B", and none for the last slot of the order
C6_Witness ==
    /\ last.op = "get_next_slot"
    /\ last.penv.boot_order = OrderBA
    /\ last.slot = ChA
    /\ last.penv.boot_a_left > 0
    /\ last.chr = NUL

(***************************************************************************)
(* C7: when the slot's counter is already 0, uboot_env_decrement_boot_left *)
(* returns the error result and changes nothing: cached counters, payload, *)
(* dirty flag (and the device) are as before.                              *)
(***************************************************************************)
C7_ExhaustedNoChange ==
    (last.op = "decrement" /\ IsSlotLetter(last.slot) /\ Left(last.penv, last.slot) = 0)
        => /\ last.ret = -1
           /\ env = last.penv
           /\ dev = last.pdev

C7_Witness ==
    /\ last.op = "decrement" /\ last.slot = ChB
    /\ Left(last.penv, ChB) = 0 /\ last.penv.boot_a_left > 0
    /\ last.ret = -1

(***************************************************************************)
(* C9: uboot_env_init on an image whose stored CRC does not match its      *)
(* payload yields BOOT_ORDER = "A B", BOOT_A_LEFT = "3", BOOT_B_LEFT = "3" *)
(* and dirty; a following uboot_env_save writes an image that a fresh      *)
(* uboot_env_init parses with a matching CRC to the same values, not dirty.*)
(***************************************************************************)
HoldsDefaults(e) ==
    /\ uboot_env_get(e, KeyBootOrder) = Value(DefaultBootOrder)
    /\ uboot_env_get(e, KeyBootALeft) = Value(FormatD(3))
    /\ uboot_env_get(e, KeyBootBLeft) = Value(FormatD(3))
    /\ e.boot_order = DefaultBootOrder
    /\ e.boot_a_left = 3
    /\ e.boot_b_left = 3

C9_CorruptInit ==
    /\ (g.chain = 1) => (HoldsDefaults(env) /\ env.dirty)
    /\ (g.chain = 2) => (CrcMatches(dev) /\ dev[HeaderSize] = UBOOT_ENV_FLAG_ACTIVE)
    /\ (g.chain = 3) => (HoldsDefaults(env) /\ ~env.dirty /\ last.crc_ok)

\* erased flash was initialized, saved and read again
C9_Witness ==
    /\ g.chain = 3 /\ g.img = "erased" /\ last.op = "init" /\ last.ret = 0
    /\ ~env.dirty

(***************************************************************************)
(* C10: after uboot_env_save returns ok on a dirty env, the env region is  *)
(* [CRC32(payload), little-endian][flags = 1][payload], written by one     *)
(* write of size bytes, and dirty is false; on an env that is not dirty    *)
(* uboot_env_save writes nothing and returns ok.                           *)
(***************************************************************************)
C10_Save ==
    /\ (last.op = "save" /\ last.penv.dirty /\ last.ret = 0)
           => /\ dev = crc32(env.data) \o <<1>> \o env.data
              /\ Len(dev) = env.size
              /\ env.data = last.penv.data
              /\ last.writes = 1
              /\ ~env.dirty
    /\ (last.op = "save" /\ ~last.penv.dirty)
           => /\ last.ret = 0
              /\ last.writes = 0
              /\ dev = last.pdev
              /\ env = last.penv

C10_Witness_Dirty ==
    /\ last.op = "save" /\ last.penv.dirty /\ last.ret = 0 /\ dev # last.pdev

C10_Witness_Clean ==
    /\ last.op = "save" /\ ~last.penv.dirty /\ last.io # IoOk

\* every payload the program holds ends with NUL, so no strlen of the scan
\* loops runs past the buffer
LastByteNul == env.data # <<>> => env.data[Len(env.data)] = NUL

(***************************************************************************)
(* Properties of the dispatcher (Spec).  `last` describes the most recent  *)
(* pre-boot step, g.preboots counts the pre-boot steps of the current run, *)
(* g.attempts all of them, g.since those this process made since it        *)
(* initialized A/B.                                                        *)
(***************************************************************************)
AfterPreBoot == g.preboots > 0 /\ last.op = "pre_boot"

Counters(e) == <<e.boot_a_left, e.boot_b_left>>

\* the counters of e with the one of `slot` lowered by one
CountersLess(e, slot) ==
    <<e.boot_a_left - (IF slot = ChA THEN 1 ELSE 0),
      e.boot_b_left - (IF slot = ChB THEN 1 ELSE 0)>>

\* the on-device value of a slot's counter
DevLeft(slot) == Lookup(PayloadOf(dev), LeftKey(slot))

(***************************************************************************)
(* C1: in every A/B dispatcher run the pre-boot decrement of the selected  *)
(* slot has been written to the env region before the slot's filesystem is *)
(* mounted: whenever the run holds the mounted slot, its pre-boot step has *)
(* already run and the on-device counter is the decremented one.           *)
(***************************************************************************)
C1_PersistedBeforeMount ==
    (pc = "extlinux" /\ loc.from = "ab")
        => /\ AfterPreBoot
           /\ HasKey(PayloadOf(dev), LeftKey(ab.current_slot))
           /\ DevLeft(ab.current_slot) = FormatD(Left(env, ab.current_slot))

(***************************************************************************)
(* C4: lk2nd_boot_ab_pre_boot on an initialized A/B state decrements the   *)
(* current slot's counter; if that reports exhausted and the order has a   *)
(* later slot with attempts left, that slot becomes current and its        *)
(* counter is decremented; if there is none, the current slot is kept and  *)
(* no counter changes.  In every case the env is saved afterwards: with a  *)
(* working device the env region then holds the payload and its CRC.       *)
(***************************************************************************)
C4_PreBoot ==
    AfterPreBoot =>
        LET cur == last.pab.current_slot
            e0  == last.penv
            nxt == ExpectedNextSlot(e0, cur)
        IN  /\ last.pab.initialized
            /\ (last.first < 0) = (Left(e0, cur) <= 0)
            /\ last.first >= 0
                   => /\ ab.current_slot = cur
                      /\ Counters(env) = CountersLess(e0, cur)
            /\ (last.first < 0 /\ nxt # NUL)
                   => /\ ab.current_slot = nxt
                      /\ last.next = nxt
                      /\ last.second = 0
                      /\ Counters(env) = CountersLess(e0, nxt)
            /\ (last.first < 0 /\ nxt = NUL)
                   => /\ ab.current_slot = cur
                      /\ last.next = NUL
                      /\ Counters(env) = Counters(e0)
                      /\ env.data = e0.data
            /\ last.ret # 1
            /\ last.io = IoOk
                   => /\ last.ret = 0
                      /\ ~env.dirty
                      /\ PayloadOf(dev) = env.data
                      /\ CrcMatches(dev)

\* a pre-boot step that found its slot exhausted, switched and saved
C4_Witness_Switch ==
    /\ AfterPreBoot
    /\ last.first < 0
    /\ last.next = ChB
    /\ ab.current_slot = ChB
    /\ last.pab.current_slot = ChA
    /\ last.io = IoOk
    /\ last.writes = 1

\* a pre-boot step with every slot exhausted
C4_Witness_NoSuccessor ==
    /\ AfterPreBoot
    /\ last.first < 0
    /\ last.next = NUL
    /\ last.pab.current_slot = ChA

(***************************************************************************)
(* C5: from the default state ("A B", both counters 3), with no userspace  *)
(* reset and a working device: the first attempt selects A and leaves      *)
(* BOOT_A_LEFT = 2; after three attempts BOOT_A_LEFT = 0; on the fourth    *)
(* attempt the current slot is 'A', decrement('A') reports exhausted,      *)
(* next_slot('A') is 'B', the slot switches to B and decrement('B') is ok  *)
(* and leaves BOOT_B_LEFT = 2.                                             *)
(***************************************************************************)
FromDefault == g.img = "default" /\ ~g.faults /\ AfterPreBoot

C5_FirstThree ==
    /\ (FromDefault /\ g.attempts = 1)
           => /\ last.pab.current_slot = ChA
              /\ last.first = 0
              /\ ab.current_slot = ChA
              /\ Counters(env) = <<2, 3>>
              /\ DevLeft(ChA) = FormatD(2)
    /\ (FromDefault /\ g.attempts = 3)
           => /\ Counters(env) = <<0, 3>>
              /\ DevLeft(ChA) = FormatD(0)

C5_FourthEnds ==
    (FromDefault /\ g.attempts = 4)
        => /\ ab.current_slot = ChB
           /\ Counters(env) = <<0, 2>>
           /\ DevLeft(ChA) = FormatD(0)
           /\ DevLeft(ChB) = FormatD(2)

C5_FourthSwitches ==
    /\ last.pab.current_slot = ChA
    /\ last.first < 0
    /\ last.next = ChB
    /\ last.second = 0

C5_Witness_FourthAfterReset ==
    /\ FromDefault
    /\ g.attempts = 4
    /\ g.since = 1
    /\ last.pab.current_slot = ChB

(***************************************************************************)
(* C11: when uboot_env_set has no room for the counter's entry during a    *)
(* decrement, the decrement does not return ok and no attempt is recorded: *)
(* neither the cached counter nor the payload counts it.                   *)
(***************************************************************************)
\* the uboot_env_set call a decrement of `slot` makes on `e` finds no room
SetFindsNoRoom(e, slot) ==
    /\ IsSlotLetter(slot)
    /\ Left(e, slot) > 0
    /\ uboot_env_set(e, LeftKey(slot), FormatD(Left(e, slot) - 1)).ret < 0

C11_OutOfSpaceFatal ==
    (last.op = "decrement" /\ SetFindsNoRoom(last.penv, last.slot))
        => /\ last.ret # 0
           /\ Left(env, last.slot) = Left(last.penv, last.slot)
           /\ uboot_env_get(env, last.key) = uboot_env_get(last.penv, last.key)

(***************************************************************************)
(* C12: if the env cannot be read at init, or cannot be written at the     *)
(* pre-boot save, the dispatcher does not go on to boot an A/B slot: it    *)
(* falls through to the non-A/B scan.                                      *)
(***************************************************************************)
\* the run is on the A/B branch: mounting the slot, in it, or booted from it
OnAbBranch ==
    \/ pc = "ab"
    \/ pc \in {"extlinux", "handoff"} /\ loc.from = "ab"

C12_IoFailureNoAbBoot ==
    /\ (pc # "off" /\ ~ab.initialized) => ~OnAbBranch
    /\ (AfterPreBoot /\ last.ret < 0 /\ loc.from = "ab") => pc = "fallback"

(***************************************************************************)
(* C13: after the pre-boot step the mounted sub-device "ab-slot" starts at *)
(* the byte offset configured for the slot that pre-boot selected and      *)
(* extends to the end of the base device, in every dispatcher invocation:  *)
(* the slot reported by lk2nd_boot_ab_get_slot and the mounted offset      *)
(* agree.                                                                  *)
(***************************************************************************)
\* the byte offset configured for a slot
ConfiguredOffset(slot) ==
    IF slot = ChA THEN ab.boot_offset_a
    ELSE IF slot = ChB THEN ab.boot_offset_b
    ELSE 0

C13_MountedOffsetAgrees ==
    (AfterPreBoot /\ loc.mnt = "ab-slot")
        => /\ loc.mnt_off = ConfiguredOffset(lk2nd_boot_ab_get_slot(ab))
           /\ loc.sub_start * BlockSize = ConfiguredOffset(lk2nd_boot_ab_get_slot(ab))
           /\ loc.sub_start + loc.sub_len = BlockCount

C14_Witness_MountFailed ==
    /\ pc = "extlinux"
    /\ loc.from = "scan"
    /\ ab.initialized
    /\ loc.target_offset > 0

(***************************************************************************)
(* SpecLabel: label selection in lk2nd_try_extlinux for the slot reported  *)
(* by lk2nd_boot_ab_get_slot, in A/B mode.  loc holds the parsed           *)
(* extlinux.conf: whether it has a `default` line, its base name, and the  *)
(* names of its labels in file order.                                      *)
(***************************************************************************)
ChUnderscore == 95

\* the most labels an extlinux.conf of SpecLabel has
MaxLabels == 3

\* "l", "x": base names; "l_A" .. "x_B": slot labels; "A": a label that is
\* the slot letter without the separator
NameL == <<108>>
NameX == <<120>>
LabelNames ==
    {NameL, <<65>>,
     NameL \o <<ChUnderscore, ChA>>, NameL \o <<ChUnderscore, ChB>>,
     NameX \o <<ChUnderscore, ChA>>, NameX \o <<ChUnderscore, ChB>>}

LabelLists == UNION {[1..n -> LabelNames] : n \in 0..MaxLabels}

\* the suffix "_<slot>"
SlotSuffix(slot) == <<ChUnderscore, slot>>

EndsWith(name, suffix) ==
    /\ Len(name) >= Len(suffix)
    /\ SubSeq(name, Len(name) - Len(suffix) + 1, Len(name)) = suffix

\* index of the first label at or after i that ends with the suffix, or 0
RECURSIVE FirstEndingWith(_, _, _)
FirstEndingWith(labels, suffix, i) ==
    IF i > Len(labels) THEN 0
    ELSE IF EndsWith(labels[i], suffix) THEN i
    ELSE FirstEndingWith(labels, suffix, i + 1)

\* index of the first label at or after i with exactly this name, or 0
RECURSIVE FirstNamed(_, _, _)
FirstNamed(labels, name, i) ==
    IF i > Len(labels) THEN 0
    ELSE IF labels[i] = name THEN i
    ELSE FirstNamed(labels, name, i + 1)

\* the label selection rule: the index of the selected label, 0 to abort
SelectLabel(conf, slot) ==
    IF conf.has_default
    THEN FirstNamed(conf.labels, conf.default \o SlotSuffix(slot), 1)
    ELSE FirstEndingWith(conf.labels, SlotSuffix(slot), 1)

LabelInit ==
    /\ dev = <<>>
    /\ env = ZeroEnv
    /\ \E slot \in {ChA, ChB} :
           ab = [ZeroAb EXCEPT !.initialized = TRUE, !.partition = ResolvedName,
                               !.current_slot = slot]
    /\ pc = "label"
    /\ \E d \in {<<>>, NameL, NameX}, ls \in LabelLists :
           loc = [has_default |-> d # <<>>, default |-> d, labels |-> ls]
    /\ last = NoLast
    /\ g = NoG

\* a label was selected: it is handed to the kernel loader
LabelBoot ==
    /\ pc = "label"
    /\ SelectLabel(loc, lk2nd_boot_ab_get_slot(ab)) # 0
    /\ pc' = "handoff"
    /\ last' = [NoLast EXCEPT !.op = "select",
                              !.ret = SelectLabel(loc, lk2nd_boot_ab_get_slot(ab)),
                              !.val = loc.labels[SelectLabel(loc, lk2nd_boot_ab_get_slot(ab))]]
    /\ UNCHANGED <<dev, env, ab, loc, g>>

\* no label matches: the boot of the slot is aborted
LabelAbort ==
    /\ pc = "label"
    /\ SelectLabel(loc, lk2nd_boot_ab_get_slot(ab)) = 0
    /\ pc' = "aborted"
    /\ last' = [NoLast EXCEPT !.op = "select", !.ret = 0]
    /\ UNCHANGED <<dev, env, ab, loc, g>>

LabelNext == LabelBoot \/ LabelAbort

SpecLabel == LabelInit /\ [][LabelNext]_vars

(***************************************************************************)
(* C15: for current slot S, with `default <base>` the selected label is    *)
(* exactly <base>_S; without it, the first label whose name ends with _S;  *)
(* if there is no such label the boot is aborted, so no label of the other *)
(* slot and no unsuffixed label is booted in A/B mode.                     *)
(***************************************************************************)
C15_LabelSelection ==
    LET S      == ab.current_slot
        labels == loc.labels
        wanted == loc.default \o <<ChUnderscore, S>>
    IN  /\ pc = "handoff"
               => /\ last.ret \in 1..Len(labels)
                  /\ last.val = labels[last.ret]
                  /\ EndsWith(last.val, <<ChUnderscore, S>>)
                  /\ loc.has_default => last.val = wanted
                  /\ ~loc.has_default
                        => \A j \in 1..(last.ret - 1) :
                               ~EndsWith(labels[j], <<ChUnderscore, S>>)
        /\ pc = "aborted"
               => IF loc.has_default
                  THEN \A j \in 1..Len(labels) : labels[j] # wanted
                  ELSE \A j \in 1..Len(labels) :
                           ~EndsWith(labels[j], <<ChUnderscore, S>>)

\* slot B, a file with `default l` whose labels are l, l_A, l_B: l_B is booted
C15_Witness_Default ==
    /\ pc = "handoff"
    /\ ab.current_slot = ChB
    /\ loc.has_default
    /\ loc.labels = <<NameL, NameL \o <<ChUnderscore, ChA>>, NameL \o <<ChUnderscore, ChB>>>>
    /\ last.ret = 3

\* slot A, a file with only the other slot's label and an unsuffixed one
C15_Witness_Abort ==
    /\ pc = "aborted"
    /\ ab.current_slot = ChA
    /\ loc.labels = <<NameL, NameL \o <<ChUnderscore, ChB>>>>

\* ======================================================================
\* UMS target (src/app/aboot/ums.c, header in src/unnamed/part_005)
\* ======================================================================

\* scaled sizes: bytes per logical block, bytes of the transfer buffer
\* (ums_buffer_size), bytes per controller request (ums_max_usb_xfer) and
\* the block count of the small exported partition
UmsBlockSize == 2
UmsBufferSize == 4
UmsMaxXfer == 3
SmallBlocks == 3

\* commands per session
MaxCmds == 3

CBW_SIGNATURE == 1128420181
CSW_SIGNATURE == 1396855637
CSW_STATUS_GOOD == 0
CSW_STATUS_FAILED == 1
CSW_STATUS_PHASE_ERROR == 2

SCSI_TEST_UNIT_READY == 0
SCSI_REQUEST_SENSE == 3
SCSI_INQUIRY == 18
SCSI_MODE_SENSE_6 == 26
SCSI_START_STOP_UNIT == 27
SCSI_ALLOW_MEDIUM_REMOVAL == 30
SCSI_READ_CAPACITY == 37
SCSI_READ_10 == 40
SCSI_WRITE_10 == 42
SCSI_VERIFY_10 == 47

SCSI_SENSE_NO_SENSE == 0
SCSI_SENSE_NOT_READY == 2
SCSI_SENSE_MEDIUM_ERROR == 3
SCSI_SENSE_ILLEGAL_REQUEST == 5
SCSI_ASC_INVALID_COMMAND == 32
SCSI_ASC_INVALID_FIELD_IN_CDB == 36
SCSI_ASC_MEDIUM_NOT_PRESENT == 58
ASC_WRITE_PROTECTED == 39

\* a uint32_t / uint64_t value is kept as two halves, value = hi * 2^16 + lo,
\* with lo < 2^16; a uint32_t has hi < 2^16 as well
Two16 == 65536

W32(hi, lo) == [hi |-> hi, lo |-> lo]

Less(a, b) == a.hi < b.hi \/ (a.hi = b.hi /\ a.lo < b.lo)

\* a + n in uint32_t arithmetic: the carry out of bit 31 is dropped
Add32(a, n) == W32((a.hi + (a.lo + n) \div Two16) % Two16, (a.lo + n) % Two16)

\* a + n in uint64_t arithmetic (no wrap at the sizes used here)
Add64(a, n) == W32(a.hi + (a.lo + n) \div Two16, (a.lo + n) % Two16)

\* a - n for n <= a, n < 2^16
Sub64(a, n) == IF a.lo >= n THEN W32(a.hi, a.lo - n) ELSE W32(a.hi - 1, a.lo + Two16 - n)

U32_MAX == W32(Two16 - 1, Two16 - 1)

\* ---- the exported block device (bio_dev) ----
\* dev.blocks holds the blocks that differ from the all-zero block; I/O from
\* the UMS target is always block aligned (offset = lba * block_size,
\* len = blocks * block_size), so the device is addressed by block number.

ZeroBlock(bs) == [i \in 1..bs |-> 0]

BlockAt(d, lba) == IF lba \in DOMAIN d.blocks THEN d.blocks[lba] ELSE ZeroBlock(d.block_size)

\* lba + n <= block_count, in 64-bit arithmetic
InRange(d, lba, n) == ~Less(d.block_count, Add64(lba, n))

RECURSIVE BlocksFrom(_, _, _)
\* the bytes of the blocks lba .. lba+n-1 that lie inside the device
BlocksFrom(d, lba, n) ==
    IF n = 0 \/ ~Less(lba, d.block_count) THEN <<>>
    ELSE BlockAt(d, lba) \o BlocksFrom(d, Add64(lba, 1), n - 1)

\* bio_read(dev, buf, lba * block_size, n * block_size): a negative result on
\* an I/O error (fault), otherwise the number of bytes read; a range that
\* runs past the end of the device is trimmed to the device
bio_read(d, lba, n, fault) ==
    IF fault
    THEN [ret |-> -1, data |-> <<>>]
    ELSE [ret |-> Len(BlocksFrom(d, lba, n)), data |-> BlocksFrom(d, lba, n)]

RECURSIVE StoreBlocks(_, _, _, _)
StoreBlocks(d, lba, bytes, n) ==
    IF n = 0 \/ ~Less(lba, d.block_count) THEN d
    ELSE StoreBlocks(
             [d EXCEPT !.blocks =
                 [k \in DOMAIN d.blocks \cup {lba} |->
                     IF k = lba THEN SubSeq(bytes, 1, d.block_size) ELSE d.blocks[k]]],
             Add64(lba, 1), SubSeq(bytes, d.block_size + 1, Len(bytes)), n - 1)

\* bio_write(dev, buf, lba * block_size, n * block_size)
bio_write(d, lba, bytes, n, fault) ==
    IF fault
    THEN [ret |-> -1, dev |-> d]
    ELSE [ret |-> Len(BlocksFrom(d, lba, n)), dev |-> StoreBlocks(d, lba, bytes, n)]

\* ---- bulk transfers ----
ums_max_usb_xfer == UmsMaxXfer

ums_buffer_size == UmsBufferSize

RECURSIVE UsbLoop(_, _, _)
\* the while loop shared by ums_usb_write and ums_usb_read: one controller
\* request per iteration; usb is what happens to the first request ("ok",
\* "err": the queue call fails, "short": it completes one byte short)
UsbLoop(len, count, usb) ==
    IF len = 0 THEN count
    ELSE IF usb = "err" THEN -1
    ELSE IF usb = "short" THEN count + (Min(len, ums_max_usb_xfer) - 1)
    ELSE UsbLoop(len - Min(len, ums_max_usb_xfer), count + Min(len, ums_max_usb_xfer), "ok")

\* ums_usb_write(buf, len): bytes sent or -1; sent = what the host received
ums_usb_write(buf, len, usb) ==
    [ret |-> UsbLoop(len, 0, usb),
     sent |-> IF UsbLoop(len, 0, usb) > 0 THEN SubSeq(buf, 1, UsbLoop(len, 0, usb)) ELSE <<>>]

\* ums_usb_read(buf, len): bytes received or -1; the received bytes replace
\* the head of buf, the rest of buf keeps what it held
ums_usb_read(buf, len, usb, host) ==
    [ret |-> UsbLoop(len, 0, usb),
     buf |-> IF UsbLoop(len, 0, usb) > 0
             THEN SubSeq(host, 1, UsbLoop(len, 0, usb)) \o SubSeq(buf, UsbLoop(len, 0, usb) + 1, Len(buf))
             ELSE buf]

\* ---- SCSI command handlers ----
\* A command runs on a context c: gd is g_ums_device (with the contents of
\* the transfer buffer in gd.buf), dev the exported device, host the bytes
\* the host has ready for the data-out phase, sent and recv the bytes that
\* crossed the bulk-in and bulk-out endpoints, bio_rd and bio_wr the bytes
\* moved by bio_read and bio_write, csw the CSW handed to the controller,
\* sense_set whether the command called ums_set_sense.
\* io = [kind, at] is the one fault of the command: "bio_err" fails the block
\* I/O of chunk number at, "usb_err" and "usb_short" hit the first controller
\* request of data transfer number at.

NoCsw == [signature |-> 0, tag |-> 0, data_residue |-> 0, status |-> 0]

CmdCtx(gd, d, host) ==
    [gd |-> gd, dev |-> d, host |-> host, sent |-> <<>>, recv |-> <<>>,
     bio_rd |-> 0, bio_wr |-> 0, ret |-> 0, csw |-> NoCsw, sense_set |-> FALSE]

UsbKind(io, idx) ==
    IF io.at = idx /\ io.kind = "usb_err" THEN "err"
    ELSE IF io.at = idx /\ io.kind = "usb_short" THEN "short"
    ELSE "ok"

ums_set_sense(c, key, asc, ascq) ==
    [c EXCEPT !.gd.sense_key = key, !.gd.asc = asc, !.gd.ascq = ascq,
              !.sense_set = TRUE]

ums_send_csw(c, tag, residue, status) ==
    [c EXCEPT !.csw = [signature |-> CSW_SIGNATURE, tag |-> tag,
                       data_residue |-> residue, status |-> status]]

\* a response built in ums_small_buf and sent truncated to the requested
\* length; the result of ums_usb_write is not looked at
SmallReply(c, bytes, dtl, io) ==
    [c EXCEPT !.sent = ums_usb_write(bytes, Min(dtl, Len(bytes)), UsbKind(io, 1)).sent,
              !.ret = 0]

ums_scsi_test_unit_ready(c) ==
    IF c.gd.is_mounted
    THEN [ums_set_sense(c, SCSI_SENSE_NO_SENSE, 0, 0) EXCEPT !.ret = 0]
    ELSE [ums_set_sense(c, SCSI_SENSE_NOT_READY, SCSI_ASC_MEDIUM_NOT_PRESENT, 0) EXCEPT !.ret = -1]

SenseData(gd) ==
    <<112, 0, gd.sense_key, 0, 0, 0, 0, 10, 0, 0, 0, 0, gd.asc, gd.ascq, 0, 0, 0, 0>>

\* ums_scsi_request_sense that leaves the sense as it is after reporting
ums_scsi_request_sense_keep(c, cbw, io) ==
    SmallReply(c, SenseData(c.gd), cbw.data_transfer_length, io)

\* ums_scsi_request_sense: the fixed-format sense block, cut to the requested
\* length, then "clear sense after reporting"
ums_scsi_request_sense(c, cbw, io) ==
    ums_set_sense(SmallReply(c, SenseData(c.gd), cbw.data_transfer_length, io),
                  SCSI_SENSE_NO_SENSE, 0, 0)

\* struct scsi_inquiry_data: removable, SPC-2, response format 2,
\* "lk2nd   ", "Mass Storage    ", "1.0 "
InquiryData ==
    <<0, 128, 4, 2, 31, 0, 0, 0>>
    \o <<108, 107, 50, 110, 100, 32, 32, 32>>
    \o <<77, 97, 115, 115, 32, 83, 116, 111, 114, 97, 103, 101, 32, 32, 32, 32>>
    \o <<49, 46, 48, 32>>

ums_scsi_inquiry(c, cbw, io) == SmallReply(c, InquiryData, cbw.data_transfer_length, io)

\* the four bytes of a uint32_t, most significant first (__builtin_bswap32)
BE32(w) == <<(w.hi % Two16) \div 256, w.hi % 256, w.lo \div 256, w.lo % 256>>

ums_scsi_read_capacity(c, cbw, io) ==
    IF ~c.gd.is_mounted
    THEN [ums_set_sense(c, SCSI_SENSE_NOT_READY, SCSI_ASC_MEDIUM_NOT_PRESENT, 0) EXCEPT !.ret = -1]
    ELSE SmallReply(c, BE32(Sub64(c.gd.block_count, 1)) \o BE32(W32(0, c.gd.block_size)),
                    cbw.data_transfer_length, io)

ums_scsi_mode_sense_6(c, cbw, io) ==
    SmallReply(c, <<3, 0, IF c.gd.is_read_only THEN 128 ELSE 0, 0>>,
               cbw.data_transfer_length, io)

\* LBA and transfer length of a READ(10)/WRITE(10) CDB: cb[2..5] and cb[7..8],
\* most significant byte first (cb[i] of the source is cb[i + 1] here)
CdbLba(cb) == W32(cb[3] * 256 + cb[4], cb[5] * 256 + cb[6])

CdbLen(cb) == cb[8] * 256 + cb[9]

\* the bounds check of READ(10) and WRITE(10); lba + transfer_length is a
\* uint32_t sum
LbaRejected(gd, lba, transfer_length) ==
    ~Less(lba, gd.block_count) \/ Less(gd.block_count, Add32(lba, transfer_length))

RECURSIVE ReadChunks(_, _, _, _, _)
\* the chunk loop of ums_scsi_read_10
ReadChunks(c, lba, remaining, io, idx) ==
    IF remaining = 0 THEN [c EXCEPT !.ret = 0]
    ELSE LET chunk_blocks == Min(remaining, ums_buffer_size \div c.gd.block_size)
             chunk_bytes == chunk_blocks * c.gd.block_size
             rd == bio_read(c.dev, lba, chunk_blocks, io.kind = "bio_err" /\ io.at = idx)
             buf == rd.data \o SubSeq(c.gd.buf, Len(rd.data) + 1, Len(c.gd.buf))
             wr == ums_usb_write(buf, chunk_bytes, UsbKind(io, idx))
         IN  IF rd.ret < 0
             THEN [ums_set_sense(c, SCSI_SENSE_MEDIUM_ERROR, 0, 0) EXCEPT !.ret = -1]
             ELSE IF wr.ret < 0
             THEN [c EXCEPT !.gd.buf = buf, !.bio_rd = @ + rd.ret, !.ret = -1]
             ELSE ReadChunks([c EXCEPT !.gd.buf = buf, !.bio_rd = @ + rd.ret,
                                       !.sent = @ \o wr.sent],
                             Add32(lba, chunk_blocks), remaining - chunk_blocks, io, idx + 1)

ums_scsi_read_10(c, cbw, io) ==
    IF ~c.gd.is_mounted
    THEN [ums_set_sense(c, SCSI_SENSE_NOT_READY, SCSI_ASC_MEDIUM_NOT_PRESENT, 0) EXCEPT !.ret = -1]
    ELSE IF LbaRejected(c.gd, CdbLba(cbw.cb), CdbLen(cbw.cb))
    THEN [ums_set_sense(c, SCSI_SENSE_ILLEGAL_REQUEST, SCSI_ASC_INVALID_FIELD_IN_CDB, 0) EXCEPT !.ret = -1]
    ELSE ReadChunks(c, CdbLba(cbw.cb), CdbLen(cbw.cb), io, 1)

RECURSIVE WriteChunks(_, _, _, _, _)
\* the chunk loop of ums_scsi_write_10
WriteChunks(c, lba, remaining, io, idx) ==
    IF remaining = 0 THEN [c EXCEPT !.ret = 0]
    ELSE LET chunk_blocks == Min(remaining, ums_buffer_size \div c.gd.block_size)
             chunk_bytes == chunk_blocks * c.gd.block_size
             rd == ums_usb_read(c.gd.buf, chunk_bytes, UsbKind(io, idx), c.host)
             c1 == [c EXCEPT !.gd.buf = rd.buf,
                             !.recv = @ \o SubSeq(c.host, 1, rd.ret),
                             !.host = SubSeq(c.host, rd.ret + 1, Len(c.host))]
             bw == bio_write(c.dev, lba, SubSeq(rd.buf, 1, chunk_bytes), chunk_blocks,
                             io.kind = "bio_err" /\ io.at = idx)
         IN  IF rd.ret < 0 THEN [c EXCEPT !.ret = -1]
             ELSE IF bw.ret < 0
             THEN [ums_set_sense(c1, SCSI_SENSE_MEDIUM_ERROR, 0, 0) EXCEPT !.ret = -1]
             ELSE WriteChunks([c1 EXCEPT !.dev = bw.dev, !.bio_wr = @ + bw.ret],
                              Add32(lba, chunk_blocks), remaining - chunk_blocks, io, idx + 1)

ums_scsi_write_10(c, cbw, io) ==
    IF ~c.gd.is_mounted
    THEN [ums_set_sense(c, SCSI_SENSE_NOT_READY, SCSI_ASC_MEDIUM_NOT_PRESENT, 0) EXCEPT !.ret = -1]
    ELSE IF c.gd.is_read_only
    THEN [ums_set_sense(c, SCSI_SENSE_ILLEGAL_REQUEST, ASC_WRITE_PROTECTED, 0) EXCEPT !.ret = -1]
    ELSE IF LbaRejected(c.gd, CdbLba(cbw.cb), CdbLen(cbw.cb))
    THEN [ums_set_sense(c, SCSI_SENSE_ILLEGAL_REQUEST, SCSI_ASC_INVALID_FIELD_IN_CDB, 0) EXCEPT !.ret = -1]
    ELSE WriteChunks(c, CdbLba(cbw.cb), CdbLen(cbw.cb), io, 1)

ums_handle_scsi_command(c, cbw, io) ==
    IF cbw.cb[1] = SCSI_TEST_UNIT_READY THEN ums_scsi_test_unit_ready(c)
    ELSE IF cbw.cb[1] = SCSI_REQUEST_SENSE THEN ums_scsi_request_sense(c, cbw, io)
    ELSE IF cbw.cb[1] = SCSI_INQUIRY THEN ums_scsi_inquiry(c, cbw, io)
    ELSE IF cbw.cb[1] = SCSI_READ_CAPACITY THEN ums_scsi_read_capacity(c, cbw, io)
    ELSE IF cbw.cb[1] = SCSI_READ_10 THEN ums_scsi_read_10(c, cbw, io)
    ELSE IF cbw.cb[1] = SCSI_WRITE_10 THEN ums_scsi_write_10(c, cbw, io)
    ELSE IF cbw.cb[1] = SCSI_MODE_SENSE_6 THEN ums_scsi_mode_sense_6(c, cbw, io)
    ELSE IF cbw.cb[1] \in {SCSI_START_STOP_UNIT, SCSI_ALLOW_MEDIUM_REMOVAL, SCSI_VERIFY_10}
    THEN [c EXCEPT !.ret = 0]
    ELSE [ums_set_sense(c, SCSI_SENSE_ILLEGAL_REQUEST, SCSI_ASC_INVALID_COMMAND, 0) EXCEPT !.ret = -1]

\* ums_handle_cbw that does not look at the signature
ums_handle_cbw_anysig(c, cbw, io) ==
    LET r == ums_handle_scsi_command(c, cbw, io)
    IN  ums_send_csw(r, cbw.tag,
                     IF r.ret < 0 THEN cbw.data_transfer_length ELSE 0,
                     IF r.ret < 0 THEN CSW_STATUS_FAILED ELSE CSW_STATUS_GOOD)

\* a failed command keeps residue 0
ums_handle_cbw_residue0(c, cbw, io) ==
    IF cbw.signature # CBW_SIGNATURE THEN [c EXCEPT !.ret = -1]
    ELSE LET r == ums_handle_scsi_command(c, cbw, io)
         IN  ums_send_csw(r, cbw.tag, 0,
                          IF r.ret < 0 THEN CSW_STATUS_FAILED ELSE CSW_STATUS_GOOD)

\* ums_handle_cbw: no CSW for a CBW with a wrong signature; otherwise the
\* command runs and one CSW answers it
ums_handle_cbw(c, cbw, io) ==
    IF cbw.signature # CBW_SIGNATURE THEN [c EXCEPT !.ret = -1]
    ELSE LET r == ums_handle_scsi_command(c, cbw, io)
         IN  ums_send_csw(r, cbw.tag,
                          IF r.ret < 0 THEN cbw.data_transfer_length ELSE 0,
                          IF r.ret < 0 THEN CSW_STATUS_FAILED ELSE CSW_STATUS_GOOD)

\* ---- the UMS session: ums_thread serving the host ----
\* dev is the exported device, g is g_ums_device, loc the host side (the tag
\* of its next CBW, which counts the commands), last the most recent wrapper
\* exchange.

InitByte(k, j) == 16 + (((k.lo % 8) * UmsBlockSize + j) % 100)

\* a device whose last SmallBlocks blocks hold data and whose other blocks
\* are zero
DevOf(count) ==
    [block_count |-> count, block_size |-> UmsBlockSize,
     blocks |-> [k \in {Sub64(count, i) : i \in 1..SmallBlocks} |->
                    [j \in 1..UmsBlockSize |-> InitByte(k, j)]]]

\* the partitions a session may export: a small one, and one of 2^32 - 1
\* blocks (the largest bnum_t count)
UmsDevices == {DevOf(W32(0, SmallBlocks)), DevOf(U32_MAX)}

\* the scratch region is not cleared: two fillers stand for what it holds
ScratchFill == {0, 238}

NoPrev == [valid |-> FALSE, lba |-> W32(0, 0), count |-> 0, data |-> <<>>]

NoIo == [kind |-> "ok", at |-> 0]

NoCbw == [signature |-> 0, tag |-> 0, data_transfer_length |-> 0, cb |-> <<>>]

UmsNoLast ==
    [op |-> "none", cbw |-> NoCbw, io |-> NoIo, ret |-> 0, csw |-> NoCsw,
     sent |-> <<>>, recv |-> <<>>, bio_rd |-> 0, bio_wr |-> 0, prev |-> NoPrev,
     sense0 |-> <<0, 0, 0>>, pdev |-> <<>>, chain |-> 0, sense_set |-> FALSE]

\* ums_mount_partition that exports the partition write-protected
ums_mount_partition_ro(gd, d) ==
    [gd EXCEPT !.block_count = d.block_count, !.block_size = d.block_size,
               !.is_mounted = TRUE, !.is_read_only = TRUE]

\* ums_mount_partition with a partition that opens: the fields of
\* g_ums_device it sets
ums_mount_partition(gd, d) ==
    [gd EXCEPT !.block_count = d.block_count, !.block_size = d.block_size,
               !.is_mounted = TRUE, !.is_read_only = FALSE]

\* ums_init and ums_mount_partition have run (ums_enter_mode): the device
\* state zeroed by ums_init, the scratch region as transfer buffer, then the
\* mount
UmsInit ==
    /\ dev \in UmsDevices
    /\ env = ZeroEnv
    /\ ab = ZeroAb
    /\ pc = "ums"
    /\ loc = [tag |-> 1]
    /\ last = UmsNoLast
    /\ \E f \in ScratchFill :
           g = ums_mount_partition(
                   [is_mounted |-> FALSE, is_read_only |-> FALSE,
                    block_count |-> W32(0, 0), block_size |-> 0,
                    sense_key |-> 0, asc |-> 0, ascq |-> 0,
                    buf |-> [i \in 1..ums_buffer_size |-> f]], dev)

\* the bytes a host sends in the data-out phase of a transfer of n bytes
HostData(n) == [i \in 1..n |-> 128 + i]

Cdb10(op, lba, n) ==
    <<op, 0, lba.hi \div 256, lba.hi % 256, lba.lo \div 256, lba.lo % 256,
      0, n \div 256, n % 256, 0>>

Cdb6(op) == <<op, 0, 0, 0, 0, 0, 0, 0, 0, 0>>

\* (lba, count) pairs a host tries: empty and full transfers at the start,
\* the last block, the end of the device, ranges that run past the end and
\* the largest LBA
RwRanges(d) ==
    {<<W32(0, 0), 0>>, <<W32(0, 0), SmallBlocks>>,
     <<Sub64(d.block_count, 1), 1>>, <<d.block_count, 0>>,
     <<Sub64(d.block_count, 1), SmallBlocks + 1>>,
     <<Sub64(d.block_count, SmallBlocks), SmallBlocks>>,
     <<U32_MAX, 1>>}

HostCbws(d, tag) ==
    {[signature |-> CBW_SIGNATURE, tag |-> tag,
      data_transfer_length |-> r[2] * d.block_size, cb |-> Cdb10(op, r[1], r[2])] :
         op \in {SCSI_READ_10, SCSI_WRITE_10}, r \in RwRanges(d)}
    \cup
    {[signature |-> CBW_SIGNATURE, tag |-> tag,
      data_transfer_length |-> c[2], cb |-> Cdb6(c[1])] :
         c \in {<<SCSI_TEST_UNIT_READY, 0>>, <<SCSI_REQUEST_SENSE, 18>>,
                <<SCSI_REQUEST_SENSE, 4>>, <<SCSI_INQUIRY, 36>>,
                <<SCSI_READ_CAPACITY, 8>>, <<SCSI_MODE_SENSE_6, 4>>,
                <<SCSI_START_STOP_UNIT, 0>>, <<171, 16>>}}
    \cup
    {[signature |-> 0, tag |-> tag, data_transfer_length |-> d.block_size,
      cb |-> Cdb10(SCSI_READ_10, W32(0, 0), 1)]}

\* the faults a command can meet: none when it has no data phase
IoChoices(cbw) ==
    IF cbw.data_transfer_length = 0 THEN {NoIo}
    ELSE IF cbw.cb[1] \in {SCSI_READ_10, SCSI_WRITE_10}
    THEN {NoIo, [kind |-> "bio_err", at |-> 1], [kind |-> "usb_err", at |-> 1],
          [kind |-> "usb_short", at |-> 1], [kind |-> "usb_err", at |-> 2]}
    ELSE {NoIo, [kind |-> "usb_err", at |-> 1]}

\* the write a later READ(10) can be compared with: the last WRITE(10) that
\* was answered GOOD after the host had sent every byte of its range
PrevAfter(cbw, r, prev) ==
    IF cbw.signature # CBW_SIGNATURE \/ cbw.cb[1] # SCSI_WRITE_10 THEN prev
    ELSE IF r.csw.status = CSW_STATUS_GOOD /\ r.recv = HostData(cbw.data_transfer_length)
    THEN [valid |-> TRUE, lba |-> CdbLba(cbw.cb), count |-> CdbLen(cbw.cb), data |-> r.recv]
    ELSE NoPrev

\* the opcodes ums_handle_scsi_command has a case for
SupportedOpcodes ==
    {SCSI_TEST_UNIT_READY, SCSI_REQUEST_SENSE, SCSI_INQUIRY, SCSI_READ_CAPACITY,
     SCSI_READ_10, SCSI_WRITE_10, SCSI_MODE_SENSE_6, SCSI_START_STOP_UNIT,
     SCSI_ALLOW_MEDIUM_REMOVAL, SCSI_VERIFY_10}

\* how far the executed commands are into the sequence "unsupported opcode,
\* REQUEST SENSE, REQUEST SENSE": 1, 2, 3, and 0 outside of it.  A CBW that is
\* dropped executes no command and leaves the count.
ChainAfter(cbw, chain) ==
    IF cbw.signature # CBW_SIGNATURE THEN chain
    ELSE IF cbw.cb[1] \notin SupportedOpcodes THEN 1
    ELSE IF cbw.cb[1] = SCSI_REQUEST_SENSE /\ chain \in {1, 2} THEN chain + 1
    ELSE 0

\* one iteration of ums_thread that received a full CBW
UmsCbw ==
    /\ pc = "ums"
    /\ loc.tag <= MaxCmds
    /\ \E cbw \in HostCbws(dev, loc.tag) :
       \E io \in IoChoices(cbw) :
         \E r \in {ums_handle_cbw(
                       CmdCtx(g, dev, IF cbw.cb[1] = SCSI_WRITE_10
                                      THEN HostData(cbw.data_transfer_length) ELSE <<>>),
                       cbw, io)} :
            /\ dev' = r.dev
            /\ g' = r.gd
            /\ last' = [op |-> "cbw", cbw |-> cbw, io |-> io, ret |-> r.ret, csw |-> r.csw,
                        sent |-> r.sent, recv |-> r.recv, bio_rd |-> r.bio_rd,
                        bio_wr |-> r.bio_wr, prev |-> PrevAfter(cbw, r, last.prev),
                        sense0 |-> <<g.sense_key, g.asc, g.ascq>>, pdev |-> dev,
                        chain |-> ChainAfter(cbw, last.chain),
                        sense_set |-> r.sense_set]
            /\ loc' = [tag |-> loc.tag + 1]
    /\ UNCHANGED <<env, ab, pc>>

\* one iteration of ums_thread whose receive completed with a length other
\* than sizeof(struct cbw): nothing is handled
UmsIgnore ==
    /\ pc = "ums"
    /\ last.op # "ignored"
    /\ last' = [UmsNoLast EXCEPT !.op = "ignored", !.prev = last.prev,
                                 !.sense0 = <<g.sense_key, g.asc, g.ascq>>,
                                 !.pdev = dev, !.chain = last.chain]
    /\ UNCHANGED <<dev, env, ab, pc, loc, g>>

UmsNext == UmsCbw \/ UmsIgnore

SpecUms == UmsInit /\ [][UmsNext]_vars

UmsTypeOK ==
    /\ Len(g.buf) = ums_buffer_size
    /\ g.is_mounted
    /\ last.csw.status \in {0, 1}

\* ---- properties of the UMS target ----

CswEmitted == last.op = "cbw" /\ last.csw.signature = CSW_SIGNATURE

LastIs(op) == last.op = "cbw" /\ last.cbw.signature = CBW_SIGNATURE /\ last.cbw.cb[1] = op

LastLba == CdbLba(last.cbw.cb)

LastCount == CdbLen(last.cbw.cb)

Sense == <<g.sense_key, g.asc, g.ascq>>

\* C16: every CSW the target emits carries the tag of the CBW it answers, a
\* status among 0, 1, 2, and, when the status is not 0, a data residue equal
\* to that CBW's data_transfer_length
C16_CswAnswersCbw ==
    CswEmitted =>
        /\ last.csw.tag = last.cbw.tag
        /\ last.csw.status \in {CSW_STATUS_GOOD, CSW_STATUS_FAILED, CSW_STATUS_PHASE_ERROR}
        /\ (last.csw.status # CSW_STATUS_GOOD =>
                last.csw.data_residue = last.cbw.data_transfer_length)

\* the second command of a session, a READ(10) past the end, is answered
\* FAILED with a non-zero residue
C16_Witness_Failed ==
    /\ CswEmitted
    /\ LastIs(SCSI_READ_10)
    /\ last.cbw.tag = 2
    /\ last.csw.status = CSW_STATUS_FAILED
    /\ last.csw.data_residue > 0

\* C17: a READ(10) on a mounted device with lba + count <= block_count
\* (count = 0 and lba + count = block_count included) delivers exactly the
\* device bytes of the range, in order, and is answered by a CSW with status
\* 0, residue 0 and the CBW's tag (no I/O fault during the command)
C17_ReadDelivers ==
    (LastIs(SCSI_READ_10) /\ g.is_mounted /\ last.io = NoIo
        /\ InRange(dev, LastLba, LastCount)) =>
        /\ last.sent = BlocksFrom(dev, LastLba, LastCount)
        /\ last.csw = [signature |-> CSW_SIGNATURE, tag |-> last.cbw.tag,
                       data_residue |-> 0, status |-> CSW_STATUS_GOOD]

\* C18: a READ(10) of the range of the last successful WRITE(10), with no
\* write in between, returns exactly the bytes the host wrote
C18_WriteThenRead ==
    (LastIs(SCSI_READ_10) /\ last.io = NoIo /\ last.prev.valid
        /\ last.prev.lba = LastLba /\ last.prev.count = LastCount) =>
        last.sent = last.prev.data

\* C19: a READ(10) or WRITE(10) whose true sum lba + count exceeds
\* block_count is rejected: sense (5, 0x24, 0), CSW FAILED with residue
\* data_transfer_length, no byte of the device read or written, no data phase
C19_OverflowRejected ==
    ((LastIs(SCSI_READ_10) \/ LastIs(SCSI_WRITE_10)) /\ g.is_mounted
        /\ Less(g.block_count, Add64(LastLba, LastCount))) =>
        /\ Sense = <<SCSI_SENSE_ILLEGAL_REQUEST, SCSI_ASC_INVALID_FIELD_IN_CDB, 0>>
        /\ last.csw.status = CSW_STATUS_FAILED
        /\ last.csw.data_residue = last.cbw.data_transfer_length
        /\ last.bio_rd = 0 /\ last.bio_wr = 0
        /\ last.sent = <<>> /\ last.recv = <<>>

(***************************************************************************)
(* SpecAb: a caller of the A/B API (lk2nd_boot_ab_init,                    *)
(* lk2nd_boot_ab_pre_boot) on one env region; the calls may come in any    *)
(* order and any number of times, as the exported functions allow.         *)
(***************************************************************************)
AbInitial ==
    /\ \/ \E n \in BootImages : dev = ValidImage(Payloads[n]) /\ g = [NoG EXCEPT !.img = n]
       \/ dev = ErasedImage /\ g = [NoG EXCEPT !.img = "erased"]
    /\ env = ZeroEnv
    /\ ab = ZeroAb
    /\ pc = "abapi"
    /\ loc = NoLoc
    /\ last = NoLast

AbApiInit(resolved, io) ==
    /\ pc = "abapi"
    /\ g.ops < MaxOps
    /\ LET r == lk2nd_boot_ab_init(ab, env, resolved, EnvOffset, EnvSize, dev, io)
       IN  /\ ab' = r.ab
           /\ env' = r.env
           /\ last' = [NoLast EXCEPT !.op = "ab_init", !.io = io, !.reads = r.reads,
                                     !.penv = env, !.pdev = dev, !.pab = ab]
    /\ g' = [g EXCEPT !.ops = @ + 1]
    /\ UNCHANGED <<dev, pc, loc>>

AbApiPreBoot(io, part) ==
    /\ pc = "abapi"
    /\ g.ops < MaxOps
    /\ LET r == lk2nd_boot_ab_pre_boot(ab, env, dev, io, part)
       IN  /\ ab' = r.ab
           /\ env' = r.env
           /\ dev' = r.dev
           /\ last' = [NoLast EXCEPT !.op = "pre_boot", !.io = io, !.writes = r.writes,
                                     !.first = r.first, !.next = r.next,
                                     !.second = r.second, !.ret = r.saved,
                                     !.penv = env, !.pdev = dev, !.pab = ab]
    /\ g' = [g EXCEPT !.ops = @ + 1]
    /\ UNCHANGED <<pc, loc>>

AbNext ==
    \/ \E resolved \in {"", ResolvedName}, io \in IoResults : AbApiInit(resolved, io)
    \/ \E io \in IoResults, part \in BootShortParts : AbApiPreBoot(io, part)

SpecAb == AbInitial /\ [][AbNext]_vars

\* C27: a call of lk2nd_boot_ab_init on A/B state that an earlier call
\* initialized (there is no free in between: ab_state is never released) is a
\* no-op: the cached env payload, the dirty flag, both cached counters, the
\* selected slot and the recorded base device, env offset and size are what
\* they were before the call, and the call made no device read.
C27_SecondInitNoOp ==
    last.op = "ab_init" /\ last.pab.initialized =>
        /\ env.data = last.penv.data
        /\ env.dirty = last.penv.dirty
        /\ env.boot_a_left = last.penv.boot_a_left
        /\ env.boot_b_left = last.penv.boot_b_left
        /\ ab.current_slot = last.pab.current_slot
        /\ ab.partition = last.pab.partition
        /\ ab.offset = last.pab.offset
        /\ ab.size = last.pab.size
        /\ last.reads = 0

\* a second init, on a readable device, while the cache holds a decrement the
\* device does not
C27_Witness_SecondInit ==
    /\ last.op = "ab_init" /\ last.pab.initialized
    /\ last.io = IoOk
    /\ env.dirty
    /\ env.data # SubSeq(dev, HeaderSize + 1, EnvSize)

\* the env images whose BOOT_ORDER is empty ("noorder", "order0") or missing
\* ("blank", erased flash)
OrderUnset == g.img \in {"noorder", "order0", "blank", "erased"}

\* C28: when the env holds BOOT_ORDER with an empty value, or no BOOT_ORDER at
\* all, then after init the slot selector (uboot_env_get_boot_slot,
\* uboot_env_get_next_slot) answers exactly as it does for the same counters
\* with BOOT_ORDER = "A B".
C28_EmptyOrderIsAB ==
    OrderUnset =>
        /\ last.op = "get_boot_slot" =>
              last.chr = uboot_env_get_boot_slot([last.penv EXCEPT !.boot_order = OrderAB])
        /\ last.op = "get_next_slot" =>
              last.chr = uboot_env_get_next_slot([last.penv EXCEPT !.boot_order = OrderAB],
                                                 last.slot)

\* the part of C28 the code keeps: without any BOOT_ORDER the default is
\* materialized and the selector answers as for "A B"
C28_AbsentOrderIsAB ==
    g.img \in {"blank", "erased"} =>
        /\ last.op = "get_boot_slot" =>
              last.chr = uboot_env_get_boot_slot([last.penv EXCEPT !.boot_order = OrderAB])
        /\ last.op = "get_next_slot" =>
              last.chr = uboot_env_get_next_slot([last.penv EXCEPT !.boot_order = OrderAB],
                                                 last.slot)

\* offset just after the last record of d: where the ending empty record is
\* to be
EndOfRecords(d) == FindEnd(d, 0)

\* a payload as the Env Image layout has it: records packed from offset 0,
\* each with an '=', no key twice, and an empty record (a NUL inside the
\* payload) right after the last one
WellFormed(d) ==
    LET rs == RecordsOf(d, 0)
    IN  /\ \A i \in 1..Len(rs) : EqPos(rs[i]) # 0
        /\ \A i, j \in 1..Len(rs) : KeyOf(rs[i]) = KeyOf(rs[j]) => i = j
        /\ EndOfRecords(d) < Len(d)
        /\ d[EndOfRecords(d) + 1] = NUL

\* C29: a successful uboot_env_set on a well-formed payload leaves a
\* well-formed payload: packed NUL-terminated KEY=VALUE records, every record
\* with an '=', no key twice, an empty record after the last record.  By
\* induction this covers every sequence of successful calls.  (Keys are
\* non-empty and hold no '='.)
C29_SetKeepsWellFormed ==
    last.op = "set" /\ last.ret = 0 /\ WellFormed(last.penv.data)
        => WellFormed(env.data)

\* the 18-byte fixed-format sense block for a sense triplet
SenseBlock(t) == <<112, 0, t[1], 0, 0, 0, 0, 10, 0, 0, 0, 0, t[2], t[3], 0, 0, 0, 0>>

\* the last wrapper exchange executed a SCSI command
Executed == last.op = "cbw" /\ last.cbw.signature = CBW_SIGNATURE

\* C21: an unsupported opcode sets sense (5, 0x20, 0) and is answered with a
\* CSW of status 1 and residue data_transfer_length; the REQUEST SENSE that
\* follows it sends the 18-byte fixed sense block with exactly that triplet,
\* cut to the requested length, and clears the sense; a REQUEST SENSE right
\* after that one reports NO_SENSE (0, 0, 0).  (What reaches the host is
\* stated for transfers the controller carries out.)
C21_UnsupportedThenSense ==
    /\ Executed /\ last.chain = 1 =>
          /\ Sense = <<5, 32, 0>>
          /\ CswEmitted
          /\ last.csw.status = 1
          /\ last.csw.data_residue = last.cbw.data_transfer_length
    /\ Executed /\ last.chain = 2 =>
          /\ last.sense0 = <<5, 32, 0>>
          /\ last.io = NoIo =>
                last.sent = SubSeq(SenseBlock(<<5, 32, 0>>), 1,
                                   Min(last.cbw.data_transfer_length, 18))
          /\ Sense = <<0, 0, 0>>
          /\ last.csw.status = 0
    /\ Executed /\ last.chain = 3 =>
          /\ last.sense0 = <<0, 0, 0>>
          /\ last.io = NoIo =>
                last.sent = SubSeq(SenseBlock(<<0, 0, 0>>), 1,
                                   Min(last.cbw.data_transfer_length, 18))
          /\ Sense = <<0, 0, 0>>

\* unsupported opcode, REQUEST SENSE, and a second REQUEST SENSE of 4 bytes
C21_Witness_SecondSense ==
    /\ Executed /\ last.chain = 3
    /\ last.io = NoIo
    /\ last.cbw.data_transfer_length = 4
    /\ last.sent = <<112, 0, 0, 0>>

\* the last receive was dropped: it completed with a length other than
\* sizeof(struct cbw), or with a wrong signature
Dropped == last.op = "ignored" \/ (last.op = "cbw" /\ last.cbw.signature # CBW_SIGNATURE)

\* C30: when the receive of a CBW completes with a length other than 31 bytes
\* or with a signature other than 0x43425355, the target emits no CSW and no
\* data, executes no SCSI command (no block I/O, no data-out phase), leaves
\* the sense triplet and the exported device as they were, and is back at
\* the receive of the next CBW.
C30_DroppedCbw ==
    Dropped =>
        /\ last.csw = NoCsw
        /\ last.sent = <<>> /\ last.recv = <<>>
        /\ last.bio_rd = 0 /\ last.bio_wr = 0
        /\ Sense = last.sense0
        /\ dev = last.pdev
        /\ pc = "ums"

\* a CBW with a wrong signature arrives while a sense is pending
C30_Witness_BadSignature ==
    /\ last.op = "cbw" /\ last.cbw.signature # CBW_SIGNATURE
    /\ last.sense0 # <<0, 0, 0>>
    /\ last.cbw.cb[1] = SCSI_READ_10

(***************************************************************************)
(* SpecMode: a UMS session as the threads see it.  The menu thread runs    *)
(* opt_ums -> ums_enter_mode -> ums_exit_mode, the worker runs ums_thread, *)
(* and the USB controller completes queued requests (ums_req_complete) and *)
(* reports ONLINE (ums_notify).  A step is one access to what the threads  *)
(* share: ums_active, the two events and the endpoint queues.              *)
(*   pc    where the menu thread is                                        *)
(*   g     ums.c's globals: ums_active, g_ums_device, the requests and     *)
(*         endpoints, the events, and the controller's queues              *)
(*   loc   where the worker is, its current command, and what the          *)
(*         current ums_enter_mode call has done so far (steps; key is the  *)
(*         key its quit-key loop ended on, until ums_exit_mode is entered) *)
(*   last  not used                                                        *)
(***************************************************************************)
\* const int max_attempts = 30
max_attempts == 30

Range(s) == {s[i] : i \in 1..Len(s)}

ModeLoc0 ==
    [w |-> "none", cmd |-> "none", left |-> 0, qid |-> 0, ncbw |-> 0,
     attempts |-> 0, steps |-> <<>>, key |-> "none",
     notified |-> FALSE, direct |-> FALSE]

\* what ums_req_complete left for the waiting thread: the request, its
\* length, and the CBW it received; NoDone once the thread has read it
NoDone == [id |-> 0, len |-> "none", cbw |-> "none"]

ModeInit ==
    /\ dev = <<>>
    /\ env = ZeroEnv
    /\ ab = ZeroAb
    /\ pc = "menu"
    /\ loc = ModeLoc0
    /\ last = NoLast
    /\ \E hook \in BOOLEAN, pub \in BOOLEAN :
           g = [active |-> FALSE, udc |-> "off", free_hook |-> hook,
                ep |-> FALSE, req |-> FALSE, buf |-> FALSE,
                mounted |-> FALSE, bio |-> FALSE, sense |-> 0,
                online |-> FALSE, txn_done |-> FALSE,
                q |-> [in |-> <<>>, out |-> <<>>],
                done |-> NoDone,
                published |-> pub]

\* ---- the menu thread ----

\* what ums_init has done when it returns: "ok", or the call that failed
InitOutcomes == {"ok", "udc_init", "endpoint_alloc", "request_alloc", "register_gadget"}

ums_init(gd, o) ==
    LET g1 == [gd EXCEPT !.buf = TRUE, !.online = FALSE, !.txn_done = FALSE]
        g2 == [g1 EXCEPT !.udc = "inited"]
        g3 == [g2 EXCEPT !.ep = TRUE]
        g4 == [g3 EXCEPT !.req = TRUE]
    IN  IF o = "udc_init" THEN g1
        ELSE IF o = "endpoint_alloc" THEN g2
        ELSE IF o = "request_alloc" THEN g3
        ELSE g4

\* opt_ums calls ums_enter_mode, which runs ums_init
OptUms(o) ==
    /\ pc = "menu"
    /\ ~g.active
    /\ g' = ums_init(g, o)
    /\ pc' = IF o = "ok" THEN "mount" ELSE "menu"
    /\ loc' = [loc EXCEPT !.attempts = 0, !.key = "none",
                          !.steps = IF o = "ok" THEN <<"init">> ELSE <<>>]
    /\ UNCHANGED <<dev, env, ab, last>>

\* the block-device layer publishes the partition
Publish ==
    /\ pc = "mount"
    /\ ~g.published
    /\ g' = [g EXCEPT !.published = TRUE]
    /\ UNCHANGED <<dev, env, ab, pc, loc, last>>

\* the mount loop gives up and goes on without having mounted anything
MountGiveUp_goes_on ==
    /\ pc = "mount"
    /\ loc.attempts >= max_attempts
    /\ pc' = "start"
    /\ UNCHANGED <<dev, env, ab, loc, g, last>>

\* the mount loop ends with mount_attempts = max_attempts
MountGiveUp ==
    /\ pc = "mount"
    /\ loc.attempts >= max_attempts
    /\ pc' = IF g.mounted THEN "start" ELSE "menu"
    /\ UNCHANGED <<dev, env, ab, loc, g, last>>

\* one turn of the mount loop: ums_mount_partition finds the partition once
\* it is published
MountAttempt ==
    /\ pc = "mount"
    /\ loc.attempts < max_attempts
    /\ IF g.published
       THEN /\ g' = [g EXCEPT !.mounted = TRUE, !.bio = TRUE]
            /\ loc' = [loc EXCEPT !.steps = Append(@, "mount")]
            /\ pc' = "start"
       ELSE /\ loc' = [loc EXCEPT !.attempts = @ + 1]
            /\ UNCHANGED <<g, pc>>
    /\ UNCHANGED <<dev, env, ab, last>>

\* udc_start, then ums_active = true
UdcStart(ok) ==
    /\ pc = "start"
    /\ IF ok
       THEN /\ g' = [g EXCEPT !.udc = "started", !.active = TRUE]
            /\ loc' = [loc EXCEPT !.steps = Append(@, "start"), !.notified = FALSE]
            /\ pc' = "spawn"
       ELSE /\ pc' = "menu"
            /\ UNCHANGED <<g, loc>>
    /\ UNCHANGED <<dev, env, ab, last>>

\* thread_create and thread_resume, then the drain of buffered input
ThreadCreate(ok) ==
    /\ pc = "spawn"
    /\ IF ok
       THEN /\ loc' = [loc EXCEPT !.w = "online_wait", !.steps = Append(@, "spawn")]
            /\ pc' = "keys"
            /\ UNCHANGED g
       ELSE /\ g' = [g EXCEPT !.active = FALSE]
            /\ pc' = "menu"
            /\ UNCHANGED loc
    /\ UNCHANGED <<dev, env, ab, last>>

\* the quit-key loop leaves on any key
ReadKey_any(c) ==
    /\ pc = "keys"
    /\ loc' = [loc EXCEPT !.key = IF c # "none" THEN c ELSE @,
                          !.steps = IF "input" \in Range(@) THEN @ ELSE Append(@, "input")]
    /\ pc' = IF ~g.active \/ c # "none" THEN "exit" ELSE "keys"
    /\ UNCHANGED <<dev, env, ab, g, last>>

\* one turn of the quit-key loop: dgetc returned c, or nothing ("none")
ReadKey(c) ==
    /\ pc = "keys"
    /\ loc' = [loc EXCEPT !.key = IF c \in {"q", "Q"} THEN c ELSE @,
                          !.steps = IF "input" \in Range(@) THEN @ ELSE Append(@, "input")]
    /\ pc' = IF ~g.active \/ c \in {"q", "Q"} THEN "exit" ELSE "keys"
    /\ UNCHANGED <<dev, env, ab, g, last>>

\* ums_exit_mode: the test of ums_active and ums_active = false.  The call
\* comes from ums_enter_mode, or (loc.direct) from another caller of the
\* exported function.
ExitBegin ==
    /\ pc = "exit"
    /\ IF g.active
       THEN /\ g' = [g EXCEPT !.active = FALSE]
            /\ pc' = "exit_stop"
       ELSE /\ pc' = IF loc.direct THEN "menu" ELSE "exited"
            /\ UNCHANGED g
    /\ loc' = [loc EXCEPT !.direct = FALSE, !.key = "none"]
    /\ UNCHANGED <<dev, env, ab, last>>

\* usb_if.udc_stop()
ExitStop ==
    /\ pc = "exit_stop"
    /\ g' = [g EXCEPT !.udc = "stopped"]
    /\ pc' = "exit_release"
    /\ UNCHANGED <<dev, env, ab, loc, last>>

\* the release steps of ums_exit_mode without udc_request_free
ExitRelease_keeps_requests ==
    /\ pc = "exit_release"
    /\ g' = [g EXCEPT !.bio = FALSE, !.mounted = FALSE, !.buf = FALSE,
                      !.ep = IF g.free_hook THEN FALSE ELSE @]
    /\ pc' = "exit_zero"
    /\ UNCHANGED <<dev, env, ab, loc, last>>

\* ums_unmount_partition, transfer_buffer = NULL, the requests and the
\* endpoints freed
ExitRelease ==
    /\ pc = "exit_release"
    /\ g' = [g EXCEPT !.bio = FALSE, !.mounted = FALSE, !.buf = FALSE, !.req = FALSE,
                      !.ep = IF g.free_hook THEN FALSE ELSE @]
    /\ pc' = "exit_zero"
    /\ UNCHANGED <<dev, env, ab, loc, last>>

\* memset(&g_ums_device, 0, ...) and the return to ums_enter_mode
ExitZero ==
    /\ pc = "exit_zero"
    /\ g' = [g EXCEPT !.bio = FALSE, !.mounted = FALSE, !.buf = FALSE, !.sense = 0]
    /\ pc' = "exited"
    /\ UNCHANGED <<dev, env, ab, loc, last>>

\* ums_enter_mode returned 0: opt_ums reboots the device
RebootDevice ==
    /\ pc = "exited"
    /\ pc' = "reboot"
    /\ UNCHANGED <<dev, env, ab, loc, g, last>>

\* a call of ums_exit_mode from the menu thread outside ums_enter_mode
ExitCall ==
    /\ pc = "menu"
    /\ pc' = "exit"
    /\ loc' = [loc EXCEPT !.direct = TRUE]
    /\ UNCHANGED <<dev, env, ab, g, last>>

\* ---- the USB controller ----

\* nothing runs any more once opt_ums has called reboot_device
Running == pc # "reboot"

\* UDC_EVENT_ONLINE: ums_notify signals ums_online
NotifyOnline ==
    /\ Running
    /\ g.udc = "started"
    /\ ~loc.notified
    /\ g' = [g EXCEPT !.online = TRUE]
    /\ loc' = [loc EXCEPT !.notified = TRUE]
    /\ UNCHANGED <<dev, env, ab, pc, last>>

\* what a host sends where a CBW is expected: commands without data phase
\* (one of them unsupported), with a data-in or data-out phase, a CBW with a
\* wrong signature
CbwKinds == {"nodata", "unsupported", "in", "out", "badsig"}

\* CBWs the host sends in a session
MaxCbws == 2

\* chunks of a data phase
DataChunks == 2

\* the controller completes the oldest request queued on endpoint ep with
\* the whole length or a shorter one and calls ums_req_complete, which
\* stores the length and signals ums_txn_done.  A request that receives a
\* CBW completes in full with one of CbwKinds.
ReqComplete(ep, len, kind) ==
    /\ Running
    /\ g.udc \in {"started", "stopped"}
    /\ g.q[ep] # <<>>
    /\ LET r == Head(g.q[ep])
           full == len = "full" /\ g.udc = "started"
           cbw == r.what = "cbw" /\ full
       IN  /\ cbw => loc.ncbw < MaxCbws
           /\ ~cbw => kind = "none"
           /\ cbw => kind \in CbwKinds
           /\ g' = [g EXCEPT !.q[ep] = Tail(@), !.txn_done = TRUE,
                             !.done = [id |-> r.id,
                                       len |-> IF full THEN "full" ELSE "short",
                                       cbw |-> kind]]
           /\ loc' = [loc EXCEPT !.ncbw = IF cbw THEN @ + 1 ELSE @]
    /\ UNCHANGED <<dev, env, ab, pc, last>>

\* ---- the worker: ums_thread ----

\* udc_request_queue(endpoint, request) by the worker: the request joins the
\* endpoint's queue, or the call fails
Queued(gd, ep, what, id) == [gd EXCEPT !.q[ep] = Append(@, [what |-> what, id |-> id])]

\* event_wait(&ums_online), then the settling delay
ThreadOnline ==
    /\ Running
    /\ loc.w = "online_wait"
    /\ g.online
    /\ g' = [g EXCEPT !.online = FALSE]
    /\ loc' = [loc EXCEPT !.w = "loop"]
    /\ UNCHANGED <<dev, env, ab, pc, last>>

\* while (ums_active)
ThreadLoop ==
    /\ Running
    /\ loc.w = "loop"
    /\ loc' = [loc EXCEPT !.w = IF g.active THEN "cbw_queue" ELSE "ended",
                          !.cmd = "none"]
    /\ UNCHANGED <<dev, env, ab, pc, g, last>>

\* the CBW receive is queued on the bulk OUT endpoint
ThreadQueueCbw(ok) ==
    /\ Running
    /\ loc.w = "cbw_queue"
    /\ IF ok
       THEN /\ g' = Queued(g, "out", "cbw", 1 - loc.qid)
            /\ loc' = [loc EXCEPT !.w = "cbw_wait", !.qid = 1 - @]
       ELSE /\ loc' = [loc EXCEPT !.w = "ended"]
            /\ UNCHANGED g
    /\ UNCHANGED <<dev, env, ab, pc, last>>

\* event_wait(&ums_txn_done) returns; a full CBW is handed to ums_handle_cbw,
\* which drops it on a wrong signature and otherwise starts the command
ThreadCbwDone ==
    /\ Running
    /\ loc.w = "cbw_wait"
    /\ g.txn_done
    /\ LET k == IF g.done.len = "full" THEN g.done.cbw ELSE "none"
           runs == k \in CbwKinds \ {"badsig"}
       IN  /\ g' = [g EXCEPT !.txn_done = FALSE, !.done = NoDone,
                             !.sense = IF k = "unsupported" THEN 5 ELSE @]
           /\ loc' = [loc EXCEPT !.cmd = IF k \in {"in", "out"} THEN k
                                        ELSE IF runs THEN "nodata" ELSE "none",
                                 !.left = IF k \in {"in", "out"} THEN DataChunks ELSE 0,
                                 !.w = IF ~runs THEN "loop"
                                       ELSE IF k \in {"in", "out"} THEN "data_queue"
                                       ELSE "csw_queue"]
    /\ UNCHANGED <<dev, env, ab, pc, last>>

\* ums_usb_write / ums_usb_read queue the next chunk of the data phase
ThreadQueueData(ok) ==
    /\ Running
    /\ loc.w = "data_queue"
    /\ IF ok
       THEN /\ g' = Queued(g, loc.cmd, "data", 1 - loc.qid)
            /\ loc' = [loc EXCEPT !.w = "data_wait", !.qid = 1 - @]
       ELSE /\ loc' = [loc EXCEPT !.w = "csw_queue"]
            /\ UNCHANGED g
    /\ UNCHANGED <<dev, env, ab, pc, last>>

\* the chunk completed: the data phase goes on unless it was short or the
\* last one
ThreadDataDone ==
    /\ Running
    /\ loc.w = "data_wait"
    /\ g.txn_done
    /\ g' = [g EXCEPT !.txn_done = FALSE, !.done = NoDone]
    /\ loc' = [loc EXCEPT !.left = @ - 1,
                          !.w = IF g.done.len = "full" /\ loc.left > 1
                                THEN "data_queue" ELSE "csw_queue"]
    /\ UNCHANGED <<dev, env, ab, pc, last>>

\* ums_send_csw that does not wait for the CSW to complete
ThreadQueueCsw_nowait(ok) ==
    /\ Running
    /\ loc.w = "csw_queue"
    /\ IF ok
       THEN /\ g' = Queued(g, "in", "csw", 1 - loc.qid)
            /\ loc' = [loc EXCEPT !.w = "loop", !.qid = 1 - @]
       ELSE /\ loc' = [loc EXCEPT !.w = "loop"]
            /\ UNCHANGED g
    /\ UNCHANGED <<dev, env, ab, pc, last>>

\* ums_send_csw: the CSW is queued on the bulk IN endpoint (ums_usb_write)
ThreadQueueCsw(ok) ==
    /\ Running
    /\ loc.w = "csw_queue"
    /\ IF ok
       THEN /\ g' = Queued(g, "in", "csw", 1 - loc.qid)
            /\ loc' = [loc EXCEPT !.w = "csw_wait", !.qid = 1 - @]
       ELSE /\ loc' = [loc EXCEPT !.w = "loop"]
            /\ UNCHANGED g
    /\ UNCHANGED <<dev, env, ab, pc, last>>

\* the CSW completed: back to the top of the loop
ThreadCswDone ==
    /\ Running
    /\ loc.w = "csw_wait"
    /\ g.txn_done
    /\ g' = [g EXCEPT !.txn_done = FALSE, !.done = NoDone]
    /\ loc' = [loc EXCEPT !.w = "loop"]
    /\ UNCHANGED <<dev, env, ab, pc, last>>

Keys == {"none", "q", "Q", "x"}

ModeNext ==
    \/ \E o \in InitOutcomes : OptUms(o)
    \/ Publish
    \/ MountAttempt
    \/ MountGiveUp
    \/ \E ok \in BOOLEAN : UdcStart(ok)
    \/ \E ok \in BOOLEAN : ThreadCreate(ok)
    \/ \E c \in Keys : ReadKey(c)
    \/ ExitCall
    \/ ExitBegin
    \/ ExitStop
    \/ ExitRelease
    \/ ExitZero
    \/ RebootDevice
    \/ NotifyOnline
    \/ \E ep \in {"in", "out"}, len \in {"full", "short"}, kind \in CbwKinds \cup {"none"} :
           ReqComplete(ep, len, kind)
    \/ ThreadOnline
    \/ ThreadLoop
    \/ \E ok \in BOOLEAN : ThreadQueueCbw(ok)
    \/ ThreadCbwDone
    \/ \E ok \in BOOLEAN : ThreadQueueData(ok)
    \/ ThreadDataDone
    \/ \E ok \in BOOLEAN : ThreadQueueCsw(ok)
    \/ ThreadCswDone

SpecMode == ModeInit /\ [][ModeNext]_vars

\* ---- properties of the UMS session ----

\* a worker step that returns from event_wait(&ums_txn_done)
ThreadWakes == ThreadCbwDone \/ ThreadDataDone \/ ThreadCswDone

\* C22: at every moment at most one request is queued and not yet completed
\* on each endpoint, and never one on bulk IN and one on bulk OUT at once;
\* the CBW receive of the next command is queued only when no request (the
\* CSW of the previous command above all) is outstanding; every wait on
\* ums_txn_done returns on the completion of the request the worker queued
\* last, and that request has left its queue.
C22_QueueThenWait ==
    /\ [](/\ Len(g.q.in) <= 1
          /\ Len(g.q.out) <= 1
          /\ g.q.in = <<>> \/ g.q.out = <<>>)
    /\ [][ThreadQueueCbw(TRUE) => g.q.in = <<>> /\ g.q.out = <<>>]_vars
    /\ [][ThreadWakes => /\ g.done.id = loc.qid
                         /\ g.q.in = <<>> /\ g.q.out = <<>>]_vars

\* the CSW of a data-out command is in flight and the worker waits for it
C22_Witness_CswInFlight ==
    /\ loc.w = "csw_wait" /\ loc.cmd = "out"
    /\ Len(g.q.in) = 1 /\ g.q.in[1].what = "csw"
    /\ loc.ncbw = 2

IsPrefix(s, t) == Len(s) <= Len(t) /\ s = SubSeq(t, 1, Len(s))

\* C23: ums_enter_mode does its steps in the order initialize, mount, start
\* the controller, spawn the worker, block on the serial input, skipping
\* none; the controller is started only with a partition mounted, the worker
\* is spawned only with the controller started, and ums_enter_mode calls
\* ums_exit_mode only when the key just read is 'q' or 'Q'.
C23_EnterOrder ==
    /\ [](IsPrefix(loc.steps, <<"init", "mount", "start", "spawn", "input">>))
    /\ [][UdcStart(TRUE) => g.mounted /\ g.bio]_vars
    /\ [][ThreadCreate(TRUE) => g.udc = "started"]_vars
    /\ [](loc.w # "none" => g.udc \in {"started", "stopped"})
    /\ [][pc = "keys" /\ pc' = "exit" => loc.key' \in {"q", "Q"}]_vars

\* 'Q' was read after every step had been taken
C23_Witness_Quit ==
    /\ pc = "exit" /\ loc.key = "Q"
    /\ loc.steps = <<"init", "mount", "start", "spawn", "input">>

\* C24: ums_enter_mode calls ums_mount_partition at most 30 times; it goes
\* on to the controller as soon as one call succeeds; when all 30 fail it
\* returns an error with the controller not started and no worker, and
\* opt_ums returns to the menu.
C24_MountRetries ==
    /\ [](loc.attempts <= 30)
    /\ [][MountAttempt /\ g.mounted' => pc' = "start" /\ loc.attempts < 30]_vars
    /\ [][MountGiveUp /\ ~g.mounted =>
              /\ loc.attempts = 30
              /\ pc' = "menu"
              /\ g.udc' # "started" /\ ~g.active'
              /\ loc.w' = "none"]_vars

\* back in the menu after 30 failed attempts
C24_Witness_GaveUp ==
    /\ pc = "menu" /\ loc.attempts = 30
    /\ loc.steps = <<"init">>
    /\ ~g.mounted /\ g.udc = "inited"

\* C25: when ums_exit_mode returns from an active session, ums_active is
\* false, the controller is stopped, the partition is unmounted and its
\* block-device handle closed, the transfer-buffer pointer is null, both
\* requests are freed, the endpoints are freed when the controller has a
\* free hook, and the device state is zero; a call of ums_exit_mode while
\* not active changes nothing.
C25_ExitState ==
    /\ [][ExitZero => /\ ~g.active'
                      /\ g.udc' = "stopped"
                      /\ ~g.mounted' /\ ~g.bio'
                      /\ ~g.buf'
                      /\ ~g.req'
                      /\ g.free_hook => ~g.ep'
                      /\ g.sense' = 0]_vars
    /\ [][ExitBegin /\ ~g.active => g' = g]_vars

\* ums_exit_mode has returned on a controller with a free hook, after the
\* host had sent a command
C25_Witness_Exited ==
    /\ pc = "exited" /\ g.udc = "stopped"
    /\ g.free_hook /\ ~g.ep /\ ~g.req
    /\ loc.ncbw > 0

\* C26 (its safety half): the worker does not begin processing a command
\* once ums_exit_mode has cleared ums_active.
C26_NoCommandAfterClear ==
    [][ThreadCbwDone /\ loc.cmd' # "none" => g.active]_vars


(***************************************************************************)
(* The frame of uboot_env_set.                                             *)
(***************************************************************************)
\* the keys a caller of the Env Store can ask for in the payloads above
ObservedKeys == {KeyBootOrder, KeyBootALeft, KeyBootBLeft, KeyK, KeyKK, <<70>>}

\* every key of ks that uboot_env_get finds in e1 has the same value in e2
SameValues(e1, e2, ks) ==
    \A k \in ks :
        uboot_env_get(e1, k).found => uboot_env_get(e2, k) = uboot_env_get(e1, k)

\* C32: uboot_env_set(k, v) changes nothing but k: every other key present
\* before the call has the same value after it, whether v is longer than, as
\* long as or shorter than the previous value of k
C32_SetFrame ==
    last.op = "set" => SameValues(last.penv, env, ObservedKeys \ {last.key})

\* C33: when uboot_env_set returns an error the env is unchanged: every key
\* present before the call, the key being set included, still has its
\* previous value, and the dirty flag is as before
C33_FailedSetNoChange ==
    last.op = "set" /\ last.ret = -1
        => SameValues(last.penv, env, ObservedKeys) /\ env.dirty = last.penv.dirty


(***************************************************************************)
(* SpecBoots: boots of the device one after the other.  Each boot starts   *)
(* with zeroed ab_state, calls lk2nd_boot_ab_init on the env region and    *)
(* then lk2nd_boot_ab_pre_boot, once for each time lk2nd_boot() runs       *)
(* before the device resets; the block device works, and nothing else      *)
(* writes the env region.  g.low holds, for 'A' and 'B', the lowest value  *)
(* the env region has held for the slot's counter in the states before     *)
(* this one.                                                               *)
(***************************************************************************)
\* env images with both counters, in every order of the three keys
BootsImages == {"default", "a10", "a100", "b10", "ba", "a0", "cb", "exhausted"}

\* number of pre-boot steps of one behaviour of SpecBoots
MaxPreBoots == 3

\* the on-device counter of a slot as uboot_env_parse_rauc_vars reads it
DevCounter(d, slot) == atoi(Lookup(PayloadOf(d), LeftKey(slot)))

OnDevice(d, slot) == HasKey(PayloadOf(d), LeftKey(slot))

\* g.low after the env region became d
LowAfter(low, d) ==
    [s \in {ChA, ChB} |->
        IF OnDevice(d, s) THEN Min(low[s], DevCounter(d, s)) ELSE low[s]]

BootsInit ==
    \E n \in BootsImages :
        /\ dev = ValidImage(Payloads[n])
        /\ env = ZeroEnv
        /\ ab = ZeroAb
        /\ pc = "off"
        /\ loc = NoLoc
        /\ last = NoLast
        /\ g = [img |-> n, preboots |-> 0, boots |-> 0,
                low |-> [s \in {ChA, ChB} |-> DevCounter(dev, s)]]

\* lk2nd_boot_ab_init of a boot
BootsAbInit ==
    /\ pc = "off"
    /\ g.preboots < MaxPreBoots
    /\ LET r == lk2nd_boot_ab_init(ab, env, ResolvedName, EnvOffset, EnvSize, dev, IoOk)
       IN  /\ ab' = r.ab
           /\ env' = r.env
    /\ pc' = "booting"
    /\ last' = [NoLast EXCEPT !.op = "ab_init", !.penv = env, !.pdev = dev, !.pab = ab]
    /\ g' = [g EXCEPT !.boots = @ + 1]
    /\ UNCHANGED <<dev, loc>>

\* lk2nd_boot_ab_pre_boot, with the save it ends with
BootsPreBoot ==
    /\ pc = "booting"
    /\ g.preboots < MaxPreBoots
    /\ LET r == lk2nd_boot_ab_pre_boot(ab, env, dev, IoOk, 0)
       IN  /\ ab' = r.ab
           /\ env' = r.env
           /\ dev' = r.dev
           /\ last' = [NoLast EXCEPT !.op = "pre_boot", !.writes = r.writes,
                                     !.first = r.first, !.next = r.next,
                                     !.second = r.second, !.ret = r.saved,
                                     !.penv = env, !.pdev = dev, !.pab = ab]
           /\ g' = [g EXCEPT !.preboots = @ + 1, !.low = LowAfter(g.low, dev)]
    /\ UNCHANGED <<pc, loc>>

\* the device resets (the booted system restarts, or the boot failed): the
\* memory of lk2nd is lost, the env region stays
BootsReset ==
    /\ pc = "booting"
    /\ last.op = "pre_boot"
    /\ env' = ZeroEnv
    /\ ab' = ZeroAb
    /\ pc' = "off"
    /\ last' = [NoLast EXCEPT !.op = "reset", !.pdev = dev]
    /\ g' = [g EXCEPT !.low = LowAfter(g.low, dev)]
    /\ UNCHANGED <<dev, loc>>

BootsNext == BootsAbInit \/ BootsPreBoot \/ BootsReset

SpecBoots == BootsInit /\ [][BootsNext]_vars

\* C34: across any sequence of boots (init, pre-boot, save) that starts from
\* an env image with a valid CRC, with no other write in between, the
\* on-device values of BOOT_A_LEFT and BOOT_B_LEFT never increase: whenever
\* the env region holds a counter, its value is at most every value the
\* region held for it before
C34_CountersNeverIncrease ==
    \A s \in {ChA, ChB} : OnDevice(dev, s) => DevCounter(dev, s) <= g.low[s]


\* C35: whenever A/B is initialized the selected slot
\* (lk2nd_boot_ab_get_slot) is 'A' or 'B', for every BOOT_ORDER value the env
\* can hold and after any number of pre-boot calls
C35_SlotIsAorB ==
    ab.initialized => lk2nd_boot_ab_get_slot(ab) \in {ChA, ChB}


\* C40: the read-only flag of the UMS device is false in every reachable
\* state: the mounted partition is exported writable, MODE SENSE(6) reports
\* device-specific byte 0x00, and no WRITE(10) is rejected as write-protected
C40_NeverReadOnly ==
    /\ ~g.is_read_only
    /\ (Executed /\ last.cbw.cb[1] = SCSI_MODE_SENSE_6 /\ Len(last.sent) >= 3)
           => last.sent[3] = 0
    /\ (Executed /\ last.cbw.cb[1] = SCSI_WRITE_10)
           => Sense # <<SCSI_SENSE_ILLEGAL_REQUEST, ASC_WRITE_PROTECTED, 0>>

\* MODE SENSE(6) answered in full after a WRITE(10) had stored its data
C40_Witness_ModeSenseAfterWrite ==
    /\ Executed /\ last.cbw.cb[1] = SCSI_MODE_SENSE_6
    /\ last.sent = <<3, 0, 0, 0>>
    /\ last.prev.valid /\ last.prev.count > 0


\* C38: whenever a CSW with status FAILED is emitted, the sense triplet at
\* that moment was set by the failing command itself and has a nonzero sense
\* key, READ(10)/WRITE(10) failures caused by a USB queue error included
C38_FailedHasSense ==
    CswEmitted /\ last.csw.status = CSW_STATUS_FAILED
        => last.sense_set /\ g.sense_key # SCSI_SENSE_NO_SENSE


(***************************************************************************)
(* SpecXfer: the transfer loops of the UMS target in the sizes of the      *)
(* build.  ums_init fixes the request limit of the controller family and   *)
(* the transfer buffer size, ums_mount_partition the block size; then      *)
(* ums_thread receives CBWs and READ(10) / WRITE(10) run their chunk loop, *)
(* each chunk through the request loop of ums_usb_write / ums_usb_read,    *)
(* one step per statement that queues, waits or counts.  Only sizes are    *)
(* kept (g: is_dwc, max_usb_xfer, buffer_size, block_size, block_count;    *)
(* loc: the locals of the running command and of the request loop); the    *)
(* bytes moved are those of SpecUms.                                       *)
(***************************************************************************)
UMS_BUFFER_SIZE_DEFAULT == 1048576
UMS_HSUSB_MAX_XFER == 32768
UMS_DWC_MAX_XFER == 16777216

\* sizeof(struct cbw), sizeof(struct csw): packed
CbwSize == 31
CswSize == 13

\* target_get_max_flash_size(): a scratch region of 8 MiB, one whose half is
\* not a multiple of a block, and one of two 512-byte blocks
ScratchSizes == {1024, 3000000, 8388608}

\* dev->block_size of the exported partition (eMMC, UFS)
XferBlockSizes == {512, 4096}

\* dev->block_count of the exported partition
XferBlockCounts == {4097}

\* transfer lengths of the host's READ(10) / WRITE(10), in blocks
XferLengths == {1, 65, 2049, 4097}

\* commands per behaviour
MaxXferCmds == 1

\* the sizes ums_init sets: ums_is_dwc, ums_max_usb_xfer, ums_buffer_size
\* (min(default, scratch_max / 2) & ~(512 - 1))
XferSizes(is_dwc, scratch_max) ==
    [is_dwc |-> is_dwc,
     max_usb_xfer |-> IF is_dwc THEN UMS_DWC_MAX_XFER ELSE UMS_HSUSB_MAX_XFER,
     buffer_size |-> LET b == Min(UMS_BUFFER_SIZE_DEFAULT, scratch_max \div 2)
                     IN  b - (b % 512)]

XferLoc0 ==
    [op |-> "none", lba |-> 0, remaining |-> 0, chunk_blocks |-> 0, chunk_bytes |-> 0,
     what |-> "none", total |-> 0, len |-> 0, xfer |-> 0, count |-> 0, ret |-> 0,
     cmds |-> 0]

XferInit ==
    /\ dev = <<>>
    /\ env = ZeroEnv
    /\ ab = ZeroAb
    /\ last = NoLast
    /\ pc = "top"
    /\ loc = XferLoc0
    /\ \E is_dwc \in BOOLEAN, scratch_max \in ScratchSizes,
          bs \in XferBlockSizes, bc \in XferBlockCounts :
           g = [is_dwc |-> is_dwc,
                max_usb_xfer |-> XferSizes(is_dwc, scratch_max).max_usb_xfer,
                buffer_size |-> XferSizes(is_dwc, scratch_max).buffer_size,
                block_size |-> bs, block_count |-> bc]

\* ums_thread: the CBW receive is queued, or the queue call fails and the
\* thread leaves its loop
XferQueueCbw(ok) ==
    /\ pc = "top"
    /\ loc.cmds < MaxXferCmds
    /\ loc' = [XferLoc0 EXCEPT !.cmds = loc.cmds, !.what = "cbw", !.total = CbwSize,
                               !.len = CbwSize, !.xfer = CbwSize]
    /\ pc' = IF ok THEN "wait" ELSE "ended"
    /\ UNCHANGED <<dev, env, ab, last, g>>

\* ums_req_complete(req, actual, status) and the statements after
\* event_wait: the request completed in full or one byte short
XferComplete(actual) ==
    /\ pc = "wait"
    /\ actual \in {loc.xfer, loc.xfer - 1}
    /\ IF loc.what = "cbw"
       THEN \* a full CBW is handled, anything else starts the next iteration
            /\ loc' = [loc EXCEPT !.count = actual,
                                  !.cmds = IF actual = CbwSize THEN @ ELSE @ + 1]
            /\ pc' = IF actual = CbwSize THEN "dispatch" ELSE "top"
       ELSE \* count += length; len -= length; break on a short transfer
            /\ loc' = [loc EXCEPT !.count = @ + actual, !.len = @ - actual]
            /\ pc' = IF actual # loc.xfer \/ loc.len - actual = 0 THEN "usb_ret" ELSE "usb"
    /\ UNCHANGED <<dev, env, ab, last, g>>

\* ums_handle_scsi_command: a command without a data phase of its own (TEST
\* UNIT READY), or READ(10) / WRITE(10) up to the range check
XferCommand(op, lba, transfer_length) ==
    /\ pc = "dispatch"
    /\ IF op = "tur"
       THEN /\ loc' = [loc EXCEPT !.op = op, !.ret = 0]
            /\ pc' = "csw"
       ELSE IF lba >= g.block_count \/ lba + transfer_length > g.block_count
       THEN /\ loc' = [loc EXCEPT !.op = op, !.lba = lba, !.ret = -1]
            /\ pc' = "csw"
       ELSE /\ loc' = [loc EXCEPT !.op = op, !.lba = lba, !.remaining = transfer_length,
                                  !.ret = 0]
            /\ pc' = "loop"
    /\ UNCHANGED <<dev, env, ab, last, g>>

\* the chunk loop with remaining > 0: chunk_blocks, chunk_bytes, for READ(10)
\* the bio_read, then the call of ums_usb_write / ums_usb_read with its
\* first loop test
XferChunkBegin(bio_ok) ==
    /\ pc = "loop"
    /\ loc.remaining > 0
    /\ LET max_blocks_per_chunk == g.buffer_size \div g.block_size
           chunk_blocks == IF loc.remaining > max_blocks_per_chunk
                           THEN max_blocks_per_chunk ELSE loc.remaining
           chunk_bytes == chunk_blocks * g.block_size
       IN  IF loc.op = "read" /\ ~bio_ok
           THEN /\ loc' = [loc EXCEPT !.chunk_blocks = chunk_blocks,
                                      !.chunk_bytes = chunk_bytes, !.ret = -1]
                /\ pc' = "csw"
           ELSE /\ loc' = [loc EXCEPT !.chunk_blocks = chunk_blocks,
                                      !.chunk_bytes = chunk_bytes,
                                      !.what = "data", !.total = chunk_bytes,
                                      !.len = chunk_bytes, !.count = 0, !.xfer = 0]
                /\ pc' = IF chunk_bytes > 0 THEN "usb" ELSE "usb_ret"
    /\ UNCHANGED <<dev, env, ab, last, g>>

\* the chunk loop with remaining = 0: return 0
XferLoopEnd ==
    /\ pc = "loop"
    /\ loc.remaining = 0
    /\ loc' = [loc EXCEPT !.ret = 0]
    /\ pc' = "csw"
    /\ UNCHANGED <<dev, env, ab, last, g>>

\* the request loop queuing the whole rest in one request
XferUsbQueue_whole(ok) ==
    /\ pc = "usb"
    /\ loc.len > 0
    /\ loc' = [loc EXCEPT !.xfer = loc.len,
                          !.ret = IF ok \/ loc.what = "csw" THEN @ ELSE -1]
    /\ pc' = IF ok THEN "wait" ELSE IF loc.what = "csw" THEN "usb_ret" ELSE "csw"
    /\ UNCHANGED <<dev, env, ab, last, g>>

\* the request loop of ums_usb_write / ums_usb_read: xfer = min(len,
\* ums_max_usb_xfer) and udc_request_queue; when that fails the function
\* returns -1, which fails a READ(10) / WRITE(10) and is ignored by
\* ums_send_csw
XferUsbQueue(ok) ==
    /\ pc = "usb"
    /\ loc.len > 0
    /\ loc' = [loc EXCEPT !.xfer = IF loc.len > g.max_usb_xfer THEN g.max_usb_xfer
                                   ELSE loc.len,
                          !.ret = IF ok \/ loc.what = "csw" THEN @ ELSE -1]
    /\ pc' = IF ok THEN "wait" ELSE IF loc.what = "csw" THEN "usb_ret" ELSE "csw"
    /\ UNCHANGED <<dev, env, ab, last, g>>

\* the rest of a chunk after its transfer returned a count: for WRITE(10) the
\* bio_write, then lba += chunk_blocks and remaining -= chunk_blocks
XferChunkEnd(bio_ok) ==
    /\ pc = "usb_ret"
    /\ loc.what = "data"
    /\ IF loc.op = "write" /\ ~bio_ok
       THEN /\ loc' = [loc EXCEPT !.ret = -1]
            /\ pc' = "csw"
       ELSE /\ loc' = [loc EXCEPT !.lba = @ + loc.chunk_blocks,
                                  !.remaining = @ - loc.chunk_blocks]
            /\ pc' = "loop"
    /\ UNCHANGED <<dev, env, ab, last, g>>

\* ums_handle_cbw: ums_send_csw calls ums_usb_write(&ums_csw_buffer, 13)
XferSendCsw ==
    /\ pc = "csw"
    /\ loc' = [loc EXCEPT !.what = "csw", !.total = CswSize, !.len = CswSize,
                          !.count = 0, !.xfer = 0]
    /\ pc' = "usb"
    /\ UNCHANGED <<dev, env, ab, last, g>>

\* ums_send_csw has returned: the next iteration of ums_thread
XferCswDone ==
    /\ pc = "usb_ret"
    /\ loc.what = "csw"
    /\ loc' = [XferLoc0 EXCEPT !.cmds = loc.cmds + 1]
    /\ pc' = "top"
    /\ UNCHANGED <<dev, env, ab, last, g>>

XferNext ==
    \/ \E ok \in BOOLEAN : XferQueueCbw(ok)
    \/ \E d \in {0, 1} : XferComplete(loc.xfer - d)
    \/ \E op \in {"read", "write"}, lba \in {0, 1}, n \in XferLengths :
           XferCommand(op, lba, n)
    \/ XferCommand("tur", 0, 0)
    \/ \E bio_ok \in BOOLEAN : XferChunkBegin(bio_ok)
    \/ XferLoopEnd
    \/ \E ok \in BOOLEAN : XferUsbQueue(ok)
    \/ \E bio_ok \in BOOLEAN : XferChunkEnd(bio_ok)
    \/ XferSendCsw
    \/ XferCswDone

SpecXfer == XferInit /\ [][XferNext]_vars

\* C31: no request queued to the USB controller (CBW receive, data phase or
\* CSW) is longer than the limit of the controller family (32 KiB legacy,
\* 16 MiB SuperSpeed); a larger transfer goes out as consecutive requests
\* (each starts where the bytes counted so far end, and a transfer that was
\* not cut short has moved all its bytes when it returns); no READ(10) /
\* WRITE(10) chunk has more than floor(transfer_buffer_size / block_size)
\* blocks, so no chunk exceeds the transfer buffer
C31_RequestsWithinLimits ==
    /\ pc = "wait" =>
          /\ loc.xfer > 0
          /\ loc.xfer <= loc.len
          /\ loc.xfer <= (IF g.is_dwc THEN 16 * 1024 * 1024 ELSE 32 * 1024)
    /\ pc \in {"usb", "wait", "usb_ret"} => loc.count + loc.len = loc.total
    /\ (loc.what = "data" /\ pc \in {"usb", "wait", "usb_ret"}) =>
          /\ loc.chunk_blocks <= g.buffer_size \div g.block_size
          /\ loc.chunk_bytes <= g.buffer_size
          /\ loc.total = loc.chunk_bytes

\* on the legacy controller the last, shorter request of a WRITE(10) chunk
\* of more than 32 KiB is in flight
C31_Witness_LastPart ==
    /\ pc = "wait" /\ ~g.is_dwc
    /\ loc.op = "write" /\ loc.what = "data"
    /\ loc.count > 32 * 1024
    /\ loc.xfer < 32 * 1024
    /\ loc.count + loc.xfer = loc.chunk_bytes

Returned == pc \in {"menu", "exited", "reboot"}

\* C36: whenever ums_enter_mode has returned, with success or with any error
\* (UMS init failure, mount failure, controller start failure, thread
\* creation failure), no partition is left mounted and no block-device
\* handle, USB request or endpoint allocated by the call is left held
C36_NothingHeldAfterReturn ==
    Returned => ~g.mounted /\ ~g.bio /\ ~g.req /\ ~g.ep


\* ums_exit_mode has freed the requests and zeroed g_ums_device, and the
\* device has not reset yet
Released == pc = "exited"

\* a step of the completion callback (it writes req->length) or of the
\* worker that reads or writes a request, the transfer buffer or the
\* block-device handle: every worker step but the loop test and the wait
\* for ums_online
TouchesSession ==
    \/ \E ep \in {"in", "out"}, len \in {"full", "short"}, kind \in CbwKinds \cup {"none"} :
           ReqComplete(ep, len, kind)
    \/ \E ok \in BOOLEAN : ThreadQueueCbw(ok)
    \/ ThreadCbwDone
    \/ \E ok \in BOOLEAN : ThreadQueueData(ok)
    \/ ThreadDataDone
    \/ \E ok \in BOOLEAN : ThreadQueueCsw(ok)
    \/ ThreadCswDone

\* C37: once ums_exit_mode has freed the requests and zeroed the device
\* state, the worker thread and the completion callback never again read or
\* write a request, the transfer buffer or the block-device handle, in every
\* interleaving of the main thread, the worker and later completions
C37_NoUseAfterRelease == [][Released => ~TouchesSession]_vars

=============================================================================
